---------------------------- MODULE Spec2Model ----------------------------
(***************************************************************************)
(* A model of the movie/TV poster bot: the query parser                    *)
(* (utils/helpers.py), the metadata cache on the document store            *)
(* (confit/database.py), the structured client (services/tmdb_api.py),     *)
(* the scraped client (services/imdb_scraper.py) and the request handler   *)
(* (handlers/movies.py).                                                   *)
(*                                                                         *)
(* Conventions.  A query text is a sequence of one-character strings.      *)
(* Python's None is the token None for parsed numbers and the string       *)
(* PyNone for record values.  Record values are written as their str()     *)
(* text; a record is a function from the keys it has to their values, so   *)
(* a key the code never sets is not in its DOMAIN.                         *)
(***************************************************************************)
EXTENDS Integers, Sequences, FiniteSets, TLC

\* ------------------------------------------------------------------------
\* Text helpers (Python str and re semantics used by the code)
\* ------------------------------------------------------------------------

Digits == {"0", "1", "2", "3", "4", "5", "6", "7", "8", "9"}

LowerLetters ==
    {"a", "b", "c", "d", "e", "f", "g", "h", "i", "j", "k", "l", "m",
     "n", "o", "p", "q", "r", "s", "t", "u", "v", "w", "x", "y", "z"}

UpperLetters ==
    {"A", "B", "C", "D", "E", "F", "G", "H", "I", "J", "K", "L", "M",
     "N", "O", "P", "Q", "R", "S", "T", "U", "V", "W", "X", "Y", "Z"}

\* \s of the regular expressions and the default argument of str.strip()
Spaces == {" "}

\* \w of the regular expressions
WordChars == Digits \cup LowerLetters \cup UpperLetters \cup {"_"}

\* the value of one decimal digit
DigitVal(c) ==
    CASE c = "0" -> 0 [] c = "1" -> 1 [] c = "2" -> 2 [] c = "3" -> 3
      [] c = "4" -> 4 [] c = "5" -> 5 [] c = "6" -> 6 [] c = "7" -> 7
      [] c = "8" -> 8 [] c = "9" -> 9

DigitChar(d) ==
    CASE d = 0 -> "0" [] d = 1 -> "1" [] d = 2 -> "2" [] d = 3 -> "3"
      [] d = 4 -> "4" [] d = 5 -> "5" [] d = 6 -> "6" [] d = 7 -> "7"
      [] d = 8 -> "8" [] d = 9 -> "9"

\* int(text) for a text of decimal digits
RECURSIVE ToInt(_)
ToInt(s) ==
    IF s = <<>> THEN 0
    ELSE 10 * ToInt(SubSeq(s, 1, Len(s) - 1)) + DigitVal(s[Len(s)])

\* str(n) for n >= 0, as one string
RECURSIVE IntStr(_)
IntStr(n) ==
    IF n < 10 THEN DigitChar(n) ELSE IntStr(n \div 10) \o DigitChar(n % 10)

\* the characters of a text joined into one string ("".join)
RECURSIVE Flat(_)
Flat(s) == IF s = <<>> THEN "" ELSE Head(s) \o Flat(Tail(s))

\* sep.join(names)
RECURSIVE Join(_, _)
Join(names, sep) ==
    IF names = <<>> THEN ""
    ELSE IF Len(names) = 1 THEN names[1]
    ELSE names[1] \o sep \o Join(Tail(names), sep)

\* str.lower() of one character (re.IGNORECASE compares lowered characters)
LowerOf(c) ==
    CASE c = "A" -> "a" [] c = "B" -> "b" [] c = "C" -> "c" [] c = "D" -> "d"
      [] c = "E" -> "e" [] c = "F" -> "f" [] c = "G" -> "g" [] c = "H" -> "h"
      [] c = "I" -> "i" [] c = "J" -> "j" [] c = "K" -> "k" [] c = "L" -> "l"
      [] c = "M" -> "m" [] c = "N" -> "n" [] c = "O" -> "o" [] c = "P" -> "p"
      [] c = "Q" -> "q" [] c = "R" -> "r" [] c = "S" -> "s" [] c = "T" -> "t"
      [] c = "U" -> "u" [] c = "V" -> "v" [] c = "W" -> "w" [] c = "X" -> "x"
      [] c = "Y" -> "y" [] c = "Z" -> "z" [] OTHER -> c

\* the end (exclusive) of the longest run of characters of cls starting at i
RECURSIVE RunEnd(_, _, _)
RunEnd(s, i, cls) ==
    IF i <= Len(s) /\ s[i] \in cls THEN RunEnd(s, i + 1, cls) ELSE i

\* whether the letters of word (lower case) stand at s[i..], ignoring case
LitAt(s, i, word) ==
    /\ i + Len(word) - 1 <= Len(s)
    /\ \A k \in 1..Len(word) : LowerOf(s[i + k - 1]) = word[k]

\* str.strip(chars)
RECURSIVE LStrip(_, _)
LStrip(s, cls) ==
    IF s # <<>> /\ Head(s) \in cls THEN LStrip(Tail(s), cls) ELSE s

RECURSIVE RStrip(_, _)
RStrip(s, cls) ==
    IF s # <<>> /\ s[Len(s)] \in cls
    THEN RStrip(SubSeq(s, 1, Len(s) - 1), cls) ELSE s

Strip(s, cls) == RStrip(LStrip(s, cls), cls)

\* re.sub(r'\s+', ' ', s)
RECURSIVE CollapseSpaces(_)
CollapseSpaces(s) ==
    IF s = <<>> THEN <<>>
    ELSE IF Head(s) \in Spaces
         THEN <<" ">> \o CollapseSpaces(SubSeq(s, RunEnd(s, 1, Spaces), Len(s)))
         ELSE <<Head(s)>> \o CollapseSpaces(Tail(s))

\* ------------------------------------------------------------------------
\* parse_query (utils/helpers.py)
\* ------------------------------------------------------------------------

\* Python's None for title, year, season and episode
None == -1

\* A match of r'[Ss](\d+)[Ee](\d+)' starting at i: 0 if there is none, else
\* the end (exclusive) of the match.  \d+ is greedy and the character after
\* a run of digits is no digit, so the match at i is unique.
CompactEnd(s, i) ==
    IF i <= Len(s) /\ s[i] \in {"S", "s"}
    THEN LET j == RunEnd(s, i + 1, Digits)
         IN IF j > i + 1 /\ j <= Len(s) /\ s[j] \in {"E", "e"}
            THEN LET k == RunEnd(s, j + 1, Digits)
                 IN IF k > j + 1 THEN k ELSE 0
            ELSE 0
    ELSE 0

\* A match of r'[Ss]eason\s+(\d+)\s+[Ee]pisode\s+(\d+)' with re.IGNORECASE
\* starting at i: 0 if none, else <<end, season digits start, season digits
\* end, episode digits start>> (ends exclusive).
LongMatch(s, i) ==
    IF ~LitAt(s, i, <<"s", "e", "a", "s", "o", "n">>) THEN <<0, 0, 0, 0>>
    ELSE LET a == RunEnd(s, i + 6, Spaces)
             b == RunEnd(s, a, Digits)
             c == RunEnd(s, b, Spaces)
             d == RunEnd(s, c + 7, Spaces)
             e == RunEnd(s, d, Digits)
         IN IF /\ a > i + 6 /\ b > a /\ c > b
               /\ LitAt(s, c, <<"e", "p", "i", "s", "o", "d", "e">>)
               /\ d > c + 7 /\ e > d
            THEN <<e, a, b, d>> ELSE <<0, 0, 0, 0>>

LongEnd(s, i) == LongMatch(s, i)[1]

\* A match of r'\b(19|20)\d{2}\b' starting at i: 0 if none, else its end.
YearEnd(s, i) ==
    IF /\ i + 3 <= Len(s)
       /\ (i = 1 \/ s[i - 1] \notin WordChars)
       /\ (<<s[i], s[i + 1]>> = <<"1", "9">> \/ <<s[i], s[i + 1]>> = <<"2", "0">>)
       /\ s[i + 2] \in Digits /\ s[i + 3] \in Digits
       /\ (i + 4 > Len(s) \/ s[i + 4] \notin WordChars)
    THEN i + 4 ELSE 0

\* The three patterns of parse_query by name: the end (exclusive) of the
\* pattern's match starting at i, 0 if there is none.
MatchEnd(pat, s, i) ==
    CASE pat = "compact" -> CompactEnd(s, i)
      [] pat = "long"    -> LongEnd(s, i)
      [] pat = "year"    -> YearEnd(s, i)

\* re.search: the start of the leftmost match of the pattern, 0 if none
FirstMatch(s, pat) ==
    IF \E i \in 1..Len(s) : MatchEnd(pat, s, i) # 0
    THEN CHOOSE i \in 1..Len(s) :
            /\ MatchEnd(pat, s, i) # 0
            /\ \A j \in 1..(i - 1) : MatchEnd(pat, s, j) = 0
    ELSE 0

\* re.sub(pattern, '', s): every non-overlapping match removed, left to right
RECURSIVE RemoveAllFrom(_, _, _)
RemoveAllFrom(s, i, pat) ==
    IF i > Len(s) THEN <<>>
    ELSE IF MatchEnd(pat, s, i) # 0
         THEN RemoveAllFrom(s, MatchEnd(pat, s, i), pat)
         ELSE <<s[i]>> \o RemoveAllFrom(s, i + 1, pat)

RemoveAll(s, pat) == RemoveAllFrom(s, 1, pat)

\* Lines 20-37: season, episode and the title left after the marker.  The
\* title is <<>> when no marker matched (title = None in the code).
MarkerPart(query) ==
    LET ci == FirstMatch(query, "compact")
        li == FirstMatch(query, "long")
    IN IF ci # 0
       THEN LET j == RunEnd(query, ci + 1, Digits)
                k == CompactEnd(query, ci)
            IN [season  |-> ToInt(SubSeq(query, ci + 1, j - 1)),
                episode |-> ToInt(SubSeq(query, j + 1, k - 1)),
                title   |-> Strip(RemoveAll(query, "compact"), Spaces)]
       ELSE IF li # 0
       THEN LET m == LongMatch(query, li)
            IN [season  |-> ToInt(SubSeq(query, m[2], m[3] - 1)),
                episode |-> ToInt(SubSeq(query, m[4], m[1] - 1)),
                title   |-> Strip(RemoveAll(query, "long"), Spaces)]
       ELSE [season |-> None, episode |-> None, title |-> <<>>]

\* Lines 52-55: the final clean-up of a non-empty title
CleanTitle(title) ==
    IF title = <<>> THEN title
    ELSE Strip(Strip(CollapseSpaces(title), Spaces), {"-", " "})

\* YearPart with line 50 left out: the year token stays in the title
YearPart_keeping(title, yi) ==
    [year  |-> IF yi # 0 THEN ToInt(SubSeq(title, yi, yi + 3)) ELSE None,
     title |-> title]

\* Lines 40-50: the year and the title left after the year token
YearPart(title, yi) ==
    [year  |-> IF yi # 0 THEN ToInt(SubSeq(title, yi, yi + 3)) ELSE None,
     title |-> IF yi # 0 THEN Strip(RemoveAll(title, "year"), Spaces) ELSE title]

\* Line 57: the tuple returned, after the clean-up of the title
ParsedQuery(mp, yp) ==
    [title |-> CleanTitle(yp.title), year |-> yp.year,
     season |-> mp.season, episode |-> mp.episode]

\* Lines 39-57 for a stripped query and its marker part mp
ParseMarked(query, mp) ==
    LET title == IF mp.title = <<>> THEN query ELSE mp.title
    IN ParsedQuery(mp, YearPart(title, FirstMatch(title, "year")))

\* parse_query(query): [title, year, season, episode]; an empty title is <<>>
\* (the code returns None or '' there, both falsy).
parse_query(raw) ==
    LET query == Strip(raw, Spaces)
    IN IF query = <<>>
       THEN [title |-> <<>>, year |-> None, season |-> None, episode |-> None]
       ELSE ParseMarked(query, MarkerPart(query))

\* Python truthiness of an optional number: None and 0 are falsy
Truthy(n) == n # None /\ n # 0

\* ------------------------------------------------------------------------
\* State
\* ------------------------------------------------------------------------

VARIABLES
    now,          \* time.time(), in seconds
    dbUp,         \* whether the document store answers (else every call raises)
    indexes,      \* the indexes create_indexes managed to create
    movie_cache,  \* the movie_cache collection: a set of documents
    configs,      \* the configs collection: a set of documents
    lastOp,       \* the last cache operation called directly, and its result
    puts,         \* per key, the last cache_movie_data call made directly
    lastCall,     \* the last client operation called directly, and its result
    ncalls,       \* how many client operations were called directly
    pc,           \* where handle_movie_request stands
    intent,       \* what parse_query returned for the request's text
    movie_data,   \* the handler's movie_data (<<>> is None)
    source,       \* the handler's source
    calls,        \* the client operations the request called, with how each ended
    sent,         \* the messages the request sent or edited, in order
    nreq,         \* how many requests arrived
    applied,      \* the function applied last, with its arguments and result
    request,      \* the sender and the text of the request being handled
    call_times,   \* rate_limit: per user, the times of the admitted calls
    tasks,        \* the concurrent get_user_config calls, each with its position
    invoked       \* rate_limit: the invocations of the wrapped handler

vars == <<now, dbUp, indexes, movie_cache, configs, lastOp, puts, lastCall,
          ncalls, pc, intent, movie_data, source, calls, sent, nreq, applied,
          request, call_times, tasks, invoked>>

\* the variables of the request handler, and those of the direct calls
handlerVars ==
    <<configs, pc, intent, movie_data, source, calls, sent, nreq, request>>
directVars == <<lastOp, puts, lastCall, ncalls>>

\* the variables of the rate limiter and of the concurrent configuration reads
sideVars == <<call_times, tasks, invoked>>

\* ------------------------------------------------------------------------
\* The document store and the metadata cache (confit/database.py)
\* ------------------------------------------------------------------------

\* Python's None as a value of a document or record field
PyNone == "<None>"

\* find_one found nothing / a call returned None
NoDoc == <<>>

\* dict.get(key, default)
Get(d, key, default) == IF key \in DOMAIN d THEN d[key] ELSE default

\* The default ttl parameter of cache_movie_data
DEFAULT_TTL == 3600

\* expireAfterSeconds of the index on movie_cache.created_at
EXPIRE_AFTER_SECONDS == 86400

\* create_indexes: the four create_index calls in order.  The try block
\* ends at the first call that raises (the error is logged, not raised), so
\* the indexes that exist afterwards are those of the calls before it.
IndexOrder ==
    <<"configs.user_id", "movie_cache.imdb_id", "movie_cache.tmdb_id",
      "movie_cache.created_at">>

\* the indexes in place when the k-th call is the first to raise (k = 5: none)
create_indexes(k) == {IndexOrder[j] : j \in 1..(k - 1)}

\* The value a unique index on field stores for a document: a document
\* without the field is indexed as null.
IndexedValue(doc, field) == Get(doc, field, PyNone)

\* Whether the collection satisfies the unique indexes created on it
UniqueOk(coll) ==
    \A field \in {"imdb_id", "tmdb_id"} :
        ("movie_cache." \o field) \in indexes =>
            \A d1, d2 \in coll :
                d1 # d2 => IndexedValue(d1, field) # IndexedValue(d2, field)

\* find_one({"key": key})
find_one(coll, key) ==
    IF \E d \in coll : d.key = key
    THEN CHOOSE d \in coll : d.key = key
    ELSE NoDoc

\* update_one written with $setOnInsert instead of $set: an existing document
\* keeps its fields.
update_one_setOnInsert(coll, key, data) ==
    LET old  == find_one(coll, key)
        doc  == IF old = NoDoc THEN data @@ [key |-> key] ELSE old @@ data
        coll2 == (coll \ {old}) \cup {doc}
    IN [raised |-> "", coll |-> coll2]

\* update_one({"key": key}, {"$set": data}, upsert=True): the fields of data
\* are set on the document of that key, which is created when missing.  The
\* write is refused (DuplicateKeyError) when it breaks a unique index.
update_one(coll, key, data) ==
    LET old  == find_one(coll, key)
        doc  == IF old = NoDoc THEN data @@ [key |-> key] ELSE data @@ old
        coll2 == (coll \ {old}) \cup {doc}
    IN IF UniqueOk(coll2)
       THEN [raised |-> "", coll |-> coll2]
       ELSE [raised |-> "DuplicateKeyError", coll |-> coll]

\* cache_movie_data(key, data, ttl): [raised, coll]
cache_movie_data(coll, key, data, ttl) ==
    IF ~dbUp THEN [raised |-> "ConnectionFailure", coll |-> coll]
    ELSE update_one(coll, key, [cached_at |-> now, ttl |-> ttl] @@ data)

\* get_cached_movie_data never finding the entry
get_cached_movie_data_miss(coll, key) ==
    IF ~dbUp THEN [raised |-> "ConnectionFailure", doc |-> NoDoc]
    ELSE [raised |-> "", doc |-> NoDoc]

\* get_cached_movie_data(key): [raised, doc]
get_cached_movie_data(coll, key) ==
    IF ~dbUp THEN [raised |-> "ConnectionFailure", doc |-> NoDoc]
    ELSE LET cached == find_one(coll, key)
         IN IF /\ cached # NoDoc
               /\ now - Get(cached, "cached_at", 0) < Get(cached, "ttl", DEFAULT_TTL)
            THEN [raised |-> "", doc |-> cached]
            ELSE [raised |-> "", doc |-> NoDoc]

\* The store's expiry pass for the index on created_at: it removes the
\* documents whose created_at is older than expireAfterSeconds, and leaves
\* alone every document that has no created_at field.
TtlExpire(coll) ==
    {d \in coll :
        ~("created_at" \in DOMAIN d /\ now - d.created_at > EXPIRE_AFTER_SECONDS)}


\* ------------------------------------------------------------------------
\* The structured client (services/tmdb_api.py)
\* ------------------------------------------------------------------------

\* SETTINGS.TMDB_IMAGE_BASE_URL
TMDB_IMAGE_BASE_URL == "https://image.tmdb.org/t/p/original"

\* The outcome of one HTTP GET: a transport error, or a status and a body
TransportError == [error |-> TRUE, status |-> 0, body |-> <<>>]
Http(status, body) == [error |-> FALSE, status |-> status, body |-> body]

\* _make_request: the JSON body on status 200, None (here <<>>) on any other
\* status and on any exception
_make_request(reply) ==
    IF ~reply.error /\ reply.status = 200 THEN reply.body ELSE NoDoc

\* Python truthiness of a dict, list or text held as a function or sequence
NonEmpty(d) == DOMAIN d # {}

\* Python truthiness of a string value (None and '' are falsy)
StrTruthy(v) == v # PyNone /\ v # ""

\* str.upper() on the language codes the replies carry
Upper(v) ==
    CASE v = "en" -> "EN" [] v = "ja" -> "JA" [] OTHER -> v

\* text[:4], as one string
First4(text) == Flat(SubSeq(text, 1, IF Len(text) < 4 THEN Len(text) ELSE 4))

\* [x["name"] for x in people]
RECURSIVE Names(_)
Names(people) ==
    IF people = <<>> THEN <<>> ELSE <<Head(people).name>> \o Names(Tail(people))

IsDirector(person) == person.job = "Director"

\* f"{title}_{year or 'no_year'}"
TitleYear(title, year) ==
    Flat(title) \o "_" \o (IF Truthy(year) THEN IntStr(year) ELSE "no_year")

MovieSearchKey(title, year) == "tmdb_movie_search_" \o TitleYear(title, year)
TvSearchKey(title, year) == "tmdb_tv_search_" \o TitleYear(title, year)
MovieKey(movie_id) == "tmdb_movie_" \o IntStr(movie_id)

\* f"tmdb_tv_{tv_id}_{season or 0}_{episode or 0}"
TvKey(tv_id, season, episode) ==
    "tmdb_tv_" \o IntStr(tv_id)
        \o "_" \o IntStr(IF Truthy(season) THEN season ELSE 0)
        \o "_" \o IntStr(IF Truthy(episode) THEN episode ELSE 0)

\* The result of a client call: a record, absent (None) or an exception;
\* with the collection as the call left it and the fetches it issued.
Returned(rec, coll, fetches) ==
    [kind |-> IF NonEmpty(rec) THEN "record" ELSE "absent",
     rec |-> rec, coll |-> coll, fetches |-> fetches]
Raised(coll, fetches) ==
    [kind |-> "raise", rec |-> NoDoc, coll |-> coll, fetches |-> fetches]

\* Lines 113-139: the record built from the detail and credits bodies
FormatMovie(movie_details, movie_id, credits) ==
    LET formatted_data ==
          [type |-> "movie",
           title |-> Get(movie_details, "title", "N/A"),
           original_title |-> Get(movie_details, "original_title", "N/A"),
           year |-> IF NonEmpty(Get(movie_details, "release_date", <<>>))
                    THEN First4(movie_details.release_date) ELSE "N/A",
           language |-> Upper(Get(movie_details, "original_language", "N/A")),
           genres |-> Join(Names(Get(movie_details, "genres", <<>>)), ", "),
           rating |-> Get(movie_details, "vote_average", "N/A"),
           plot |-> Get(movie_details, "overview", "N/A"),
           runtime |-> IF Get(movie_details, "runtime", 0) # 0
                       THEN IntStr(movie_details.runtime) \o " min" ELSE "N/A",
           poster_url |-> IF StrTruthy(Get(movie_details, "poster_path", PyNone))
                          THEN TMDB_IMAGE_BASE_URL \o movie_details.poster_path
                          ELSE PyNone,
           backdrop_url |-> IF StrTruthy(Get(movie_details, "backdrop_path", PyNone))
                            THEN TMDB_IMAGE_BASE_URL \o movie_details.backdrop_path
                            ELSE PyNone,
           tmdb_id |-> movie_id]
        directors == Names(SelectSeq(Get(credits, "crew", <<>>), IsDirector))
        cast == LET all == Get(credits, "cast", <<>>)
                IN SubSeq(all, 1, IF Len(all) < 5 THEN Len(all) ELSE 5)
    IN IF NonEmpty(credits)
       THEN [director |-> IF directors # <<>> THEN Join(directors, ", ") ELSE "N/A",
             cast |-> IF cast # <<>> THEN Join(Names(cast), ", ") ELSE "N/A"]
            @@ formatted_data
       ELSE [director |-> "N/A", cast |-> "N/A"] @@ formatted_data

\* get_movie_details without the check of the detail body (lines 110-111)
get_movie_details_unchecked(coll, movie_id, rMovie, rCredits) ==
    LET cache_key == MovieKey(movie_id)
        cached == get_cached_movie_data(coll, cache_key)
        fetches == <<"movie/" \o IntStr(movie_id),
                     "movie/" \o IntStr(movie_id) \o "/credits">>
        formatted_data == FormatMovie(_make_request(rMovie), movie_id,
                                      _make_request(rCredits))
        put == cache_movie_data(coll, cache_key, [data |-> formatted_data],
                                DEFAULT_TTL)
    IN IF cached.raised # "" THEN Raised(coll, <<>>)
       ELSE IF cached.doc # NoDoc
       THEN Returned(Get(cached.doc, "data", NoDoc), coll, <<>>)
       ELSE IF put.raised # "" THEN Raised(coll, fetches)
       ELSE Returned(formatted_data, put.coll, fetches)

\* get_movie_details(movie_id); the detail and the credits fetch are issued
\* together (asyncio.gather), rMovie and rCredits are their outcomes.
get_movie_details(coll, movie_id, rMovie, rCredits) ==
    LET cache_key == MovieKey(movie_id)
        cached == get_cached_movie_data(coll, cache_key)
        fetches == <<"movie/" \o IntStr(movie_id),
                     "movie/" \o IntStr(movie_id) \o "/credits">>
        movie_details == _make_request(rMovie)
        credits == _make_request(rCredits)
        formatted_data == FormatMovie(movie_details, movie_id, credits)
        put == cache_movie_data(coll, cache_key, [data |-> formatted_data],
                                DEFAULT_TTL)
    IN IF cached.raised # "" THEN Raised(coll, <<>>)
       ELSE IF cached.doc # NoDoc
       THEN Returned(Get(cached.doc, "data", NoDoc), coll, <<>>)
       ELSE IF ~NonEmpty(movie_details) THEN Returned(NoDoc, coll, fetches)
       ELSE IF put.raised # "" THEN Raised(coll, fetches)
       ELSE Returned(formatted_data, put.coll, fetches)

\* Lines 156-174: the show-level record
FormatTv(tv_details, tv_id) ==
    LET creators == Get(tv_details, "created_by", <<>>)
    IN [type |-> "tv",
        title |-> Get(tv_details, "name", "N/A"),
        original_title |-> Get(tv_details, "original_name", "N/A"),
        year |-> IF NonEmpty(Get(tv_details, "first_air_date", <<>>))
                 THEN First4(tv_details.first_air_date) ELSE "N/A",
        language |-> Upper(Get(tv_details, "original_language", "N/A")),
        genres |-> Join(Names(Get(tv_details, "genres", <<>>)), ", "),
        rating |-> Get(tv_details, "vote_average", "N/A"),
        plot |-> Get(tv_details, "overview", "N/A"),
        poster_url |-> IF StrTruthy(Get(tv_details, "poster_path", PyNone))
                       THEN TMDB_IMAGE_BASE_URL \o tv_details.poster_path
                       ELSE PyNone,
        backdrop_url |-> IF StrTruthy(Get(tv_details, "backdrop_path", PyNone))
                         THEN TMDB_IMAGE_BASE_URL \o tv_details.backdrop_path
                         ELSE PyNone,
        tmdb_id |-> tv_id,
        seasons |-> Get(tv_details, "number_of_seasons", "N/A"),
        episodes |-> Get(tv_details, "number_of_episodes", "N/A"),
        director |-> IF creators # <<>> THEN Join(Names(creators), ", ")
                     ELSE "N/A"]

\* an overlay that also replaces the show's plot by the episode's
WithEpisode_replacing(formatted_data, season, episode, episode_details) ==
    IF Truthy(season) /\ Truthy(episode) /\ NonEmpty(episode_details)
    THEN [episode_title |-> Get(episode_details, "name", "N/A"),
          episode_plot |-> Get(episode_details, "overview", formatted_data.plot),
          plot |-> Get(episode_details, "overview", formatted_data.plot),
          season |-> season,
          episode |-> episode] @@ formatted_data
    ELSE formatted_data

\* Lines 177-183: the episode fields laid over the show-level record when
\* season and episode are both truthy and the episode fetch answered
WithEpisode(formatted_data, season, episode, episode_details) ==
    IF Truthy(season) /\ Truthy(episode) /\ NonEmpty(episode_details)
    THEN [episode_title |-> Get(episode_details, "name", "N/A"),
          episode_plot |-> Get(episode_details, "overview", formatted_data.plot),
          season |-> season,
          episode |-> episode] @@ formatted_data
    ELSE formatted_data

\* get_tv_details(tv_id, season, episode); rTv and rEpisode are the outcomes
\* of the show fetch and of the episode fetch (issued only when season and
\* episode are both truthy).
get_tv_details(coll, tv_id, season, episode, rTv, rEpisode) ==
    LET cache_key == TvKey(tv_id, season, episode)
        cached == get_cached_movie_data(coll, cache_key)
        tv_details == _make_request(rTv)
        wanted == Truthy(season) /\ Truthy(episode)
        fetches == <<"tv/" \o IntStr(tv_id)>> \o
                   (IF wanted /\ NonEmpty(tv_details)
                    THEN <<"tv/" \o IntStr(tv_id) \o "/season/" \o IntStr(season)
                             \o "/episode/" \o IntStr(episode)>>
                    ELSE <<>>)
        formatted_data ==
            WithEpisode(FormatTv(tv_details, tv_id), season, episode,
                        _make_request(rEpisode))
        put == cache_movie_data(coll, cache_key, [data |-> formatted_data],
                                DEFAULT_TTL)
    IN IF cached.raised # "" THEN Raised(coll, <<>>)
       ELSE IF cached.doc # NoDoc
       THEN Returned(Get(cached.doc, "data", NoDoc), coll, <<>>)
       ELSE IF ~NonEmpty(tv_details) THEN Returned(NoDoc, coll, fetches)
       ELSE IF put.raised # "" THEN Raised(coll, fetches)
       ELSE Returned(formatted_data, put.coll, fetches)

\* Lines 64-72 and 87-95: what a search does with the detail call's result
\* d: a record is cached under the search key and returned.
SearchTail(d, cache_key, fetches) ==
    LET put == cache_movie_data(d.coll, cache_key, [data |-> d.rec], DEFAULT_TTL)
    IN IF d.kind = "raise" THEN Raised(d.coll, fetches \o d.fetches)
       ELSE IF d.kind = "absent" THEN Returned(NoDoc, d.coll, fetches \o d.fetches)
       ELSE IF put.raised # "" THEN Raised(d.coll, fetches \o d.fetches)
       ELSE Returned(d.rec, put.coll, fetches \o d.fetches)

\* Whether a search body has results: result and result.get("results")
HasResults(result) == NonEmpty(result) /\ NonEmpty(Get(result, "results", <<>>))

\* search_movie(title, year)
search_movie(coll, title, year, rSearch, rMovie, rCredits) ==
    LET cache_key == MovieSearchKey(title, year)
        cached == get_cached_movie_data(coll, cache_key)
        result == _make_request(rSearch)
        fetches == <<"search/movie">>
    IN IF cached.raised # "" THEN Raised(coll, <<>>)
       ELSE IF cached.doc # NoDoc
       THEN Returned(Get(cached.doc, "data", NoDoc), coll, <<>>)
       ELSE IF ~HasResults(result) THEN Returned(NoDoc, coll, fetches)
       ELSE SearchTail(get_movie_details(coll, result.results[1].id,
                                         rMovie, rCredits),
                       cache_key, fetches)

\* search_tv(title, year)
search_tv(coll, title, year, rSearch, rTv) ==
    LET cache_key == TvSearchKey(title, year)
        cached == get_cached_movie_data(coll, cache_key)
        result == _make_request(rSearch)
        fetches == <<"search/tv">>
    IN IF cached.raised # "" THEN Raised(coll, <<>>)
       ELSE IF cached.doc # NoDoc
       THEN Returned(Get(cached.doc, "data", NoDoc), coll, <<>>)
       ELSE IF ~HasResults(result) THEN Returned(NoDoc, coll, fetches)
       ELSE SearchTail(get_tv_details(coll, result.results[1].id, None, None,
                                      rTv, TransportError),
                       cache_key, fetches)

\* ------------------------------------------------------------------------
\* The scraped client (services/imdb_scraper.py)
\* ------------------------------------------------------------------------

\* IMDbScraper._make_request: the page text on status 200, else None.  A
\* page is held as what BeautifulSoup finds in it.
imdb_make_request(reply) ==
    IF ~reply.error /\ reply.status = 200 THEN reply.body ELSE NoDoc

ImdbSearchKey(title, year) == "imdb_search_" \o TitleYear(title, year)
ImdbDetailsKey(imdb_id) == "imdb_details_" \o imdb_id

\* Whether the loop of search_title takes a result row (it skips a row
\* without a link, with a link that is no /title/ link, without a tt id,
\* and, when a year was asked for, with a displayed year more than 1 away).
RowTaken(row, year) ==
    /\ row.has_link
    /\ row.title_href
    /\ row.imdb_id # ""
    /\ ~(Truthy(year) /\ row.year # None
            /\ (row.year - year > 1 \/ year - row.year > 1))

\* the id of the first row the loop takes, "" if it takes none
RECURSIVE FirstTaken(_, _)
FirstTaken(rows, year) ==
    IF rows = <<>> THEN ""
    ELSE IF RowTaken(Head(rows), year) THEN Head(rows).imdb_id
    ELSE FirstTaken(Tail(rows), year)

\* search_title caching the miss as well: when no row is taken it stores an
\* empty id under the key and returns None
search_title_cachingMiss(coll, title, year, rSearch) ==
    LET cache_key == ImdbSearchKey(title, year)
        cached == get_cached_movie_data(coll, cache_key)
        html == imdb_make_request(rSearch)
        fetches == <<"find">>
        imdb_id == FirstTaken(Get(html, "results", <<>>), year)
        put == cache_movie_data(coll, cache_key, [imdb_id |-> imdb_id],
                                DEFAULT_TTL)
    IN IF cached.raised # "" THEN Raised(coll, <<>>)
       ELSE IF cached.doc # NoDoc
       THEN IF StrTruthy(Get(cached.doc, "imdb_id", ""))
            THEN Returned([imdb_id |-> cached.doc.imdb_id], coll, <<>>)
            ELSE Returned(NoDoc, coll, <<>>)
       ELSE IF ~NonEmpty(html) THEN Returned(NoDoc, coll, fetches)
       ELSE IF put.raised # "" THEN Raised(coll, fetches)
       ELSE IF imdb_id = "" THEN Returned(NoDoc, put.coll, fetches)
       ELSE Returned([imdb_id |-> imdb_id], put.coll, fetches)

\* search_title(title, year): the result is [imdb_id |-> id] or absent
search_title(coll, title, year, rSearch) ==
    LET cache_key == ImdbSearchKey(title, year)
        cached == get_cached_movie_data(coll, cache_key)
        html == imdb_make_request(rSearch)
        fetches == <<"find">>
        imdb_id == FirstTaken(Get(html, "results", <<>>), year)
        put == cache_movie_data(coll, cache_key, [imdb_id |-> imdb_id],
                                DEFAULT_TTL)
    IN IF cached.raised # "" THEN Raised(coll, <<>>)
       ELSE IF cached.doc # NoDoc
       THEN IF "imdb_id" \in DOMAIN cached.doc
            THEN Returned([imdb_id |-> cached.doc.imdb_id], coll, <<>>)
            ELSE Returned(NoDoc, coll, <<>>)
       ELSE IF ~NonEmpty(html) THEN Returned(NoDoc, coll, fetches)
       ELSE IF imdb_id = "" THEN Returned(NoDoc, coll, fetches)
       ELSE IF put.raised # "" THEN Raised(coll, fetches)
       ELSE Returned([imdb_id |-> imdb_id], put.coll, fetches)

\* the names of the first five cast links, without repeats
RECURSIVE Dedup(_, _)
Dedup(names, seen) ==
    IF names = <<>> THEN <<>>
    ELSE IF Head(names) = "" \/ Head(names) \in seen
         THEN Dedup(Tail(names), seen)
         ELSE <<Head(names)>> \o Dedup(Tail(names), seen \cup {Head(names)})

\* re.sub(r'UX\d+_CR\d+,\d+,\d+,\d+_AL_', 'UX500_CR0,0,500,750_AL_', src) on
\* the image addresses the pages carry
UpgradePoster(src) ==
    CASE src = "https://m.media-amazon.com/i._V1_UX182_CR0,0,182,268_AL_.jpg"
           -> "https://m.media-amazon.com/i._V1_UX500_CR0,0,500,750_AL_.jpg"
      [] OTHER -> src

\* Whether parsing the page raises inside the try block: the '<N> episodes'
\* span of a TV page is handed to re.search as a Tag, not as text.
ParseRaises(page) == "tv_marker" \in DOMAIN page /\ "episodes_span" \in DOMAIN page

\* Lines 183-246 and 81-124: the record parsed from a detail page
ParseTitlePage(page, imdb_id) ==
    LET cast_names ==
            LET links == Get(page, "cast_section", <<>>)
            IN Dedup(SubSeq(links, 1, IF Len(links) < 5 THEN Len(links) ELSE 5), {})
        data ==
          [imdb_id |-> imdb_id,
           type |-> IF "tv_marker" \in DOMAIN page THEN "tv" ELSE "movie",
           title |-> IF "hero_title" \in DOMAIN page THEN page.hero_title
                     ELSE Get(page, "h1", "N/A"),
           year |-> IF StrTruthy(Get(page, "year", "")) THEN page.year ELSE "N/A",
           rating |-> IF StrTruthy(Get(page, "rating", "")) THEN page.rating
                      ELSE "N/A",
           runtime |-> Get(page, "runtime", "N/A"),
           genres |-> IF Get(page, "genres", <<>>) # <<>>
                      THEN Join(page.genres, ", ") ELSE "N/A",
           plot |-> Get(page, "plot", "N/A"),
           director |-> IF Get(page, "director_section", <<>>) # <<>>
                        THEN Join(page.director_section, ", ") ELSE "N/A",
           cast |-> IF cast_names # <<>> THEN Join(cast_names, ", ") ELSE "N/A",
           language |-> IF Get(page, "languages", <<>>) # <<>>
                        THEN Join(page.languages, ", ") ELSE "N/A"]
    IN IF StrTruthy(Get(page, "poster_src", ""))
       THEN [poster_url |-> UpgradePoster(page.poster_src)] @@ data
       ELSE data

\* get_title_details(imdb_id): an exception while parsing or while caching
\* is caught inside and makes the result None.
get_title_details(coll, imdb_id, rPage) ==
    LET cache_key == ImdbDetailsKey(imdb_id)
        cached == get_cached_movie_data(coll, cache_key)
        html == imdb_make_request(rPage)
        fetches == <<"title/" \o imdb_id>>
        data == ParseTitlePage(html, imdb_id)
        put == cache_movie_data(coll, cache_key, [data |-> data], DEFAULT_TTL)
    IN IF cached.raised # "" THEN Raised(coll, <<>>)
       ELSE IF cached.doc # NoDoc
       THEN Returned(Get(cached.doc, "data", NoDoc), coll, <<>>)
       ELSE IF ~NonEmpty(html) THEN Returned(NoDoc, coll, fetches)
       ELSE IF ParseRaises(html) THEN Returned(NoDoc, coll, fetches)
       ELSE IF put.raised # "" THEN Returned(NoDoc, coll, fetches)
       ELSE Returned(data, put.coll, fetches)

\* search_and_get_details(title, year)
search_and_get_details(coll, title, year, rSearch, rPage) ==
    LET found == search_title(coll, title, year, rSearch)
        d == get_title_details(found.coll, found.rec.imdb_id, rPage)
    IN IF found.kind # "record" THEN found
       ELSE [d EXCEPT !.fetches = found.fetches \o d.fetches]

\* ------------------------------------------------------------------------
\* Replies of the remote sources (inputs of the model)
\* ------------------------------------------------------------------------

\* movie/{id}: a full body, and one with the optional parts empty or null
MovieFull ==
    [title |-> "Heat", original_title |-> "Heat",
     release_date |-> <<"1", "9", "9", "5", "-", "1", "2", "-", "1", "5">>,
     original_language |-> "en",
     genres |-> <<[name |-> "Crime"], [name |-> "Drama"]>>,
     vote_average |-> "7.9", overview |-> "A heist.", runtime |-> 170,
     poster_path |-> "/p.jpg", backdrop_path |-> "/b.jpg"]

MovieBare ==
    [title |-> "Heat", release_date |-> <<>>, genres |-> <<>>, runtime |-> 0,
     poster_path |-> PyNone, backdrop_path |-> PyNone]

\* movie/{id}/credits
CreditsFull ==
    [crew |-> <<[name |-> "Ann", job |-> "Writer"],
                [name |-> "Bob", job |-> "Director"]>>,
     cast |-> <<[name |-> "C1"], [name |-> "C2"], [name |-> "C3"],
                [name |-> "C4"], [name |-> "C5"], [name |-> "C6"]>>]

CreditsBare == [crew |-> <<[name |-> "Ann", job |-> "Writer"]>>, cast |-> <<>>]

\* tv/{id}
TvFull ==
    [name |-> "Lost", original_name |-> "Lost",
     first_air_date |-> <<"2", "0", "0", "4", "-", "0", "9", "-", "2", "2">>,
     original_language |-> "en", genres |-> <<[name |-> "Drama"]>>,
     vote_average |-> "7.9", overview |-> "An island.",
     poster_path |-> "/tp.jpg", backdrop_path |-> "/tb.jpg",
     number_of_seasons |-> "6", number_of_episodes |-> "118",
     created_by |-> <<[name |-> "Dee"], [name |-> "Eve"]>>]

TvBare ==
    [name |-> "Lost", first_air_date |-> <<>>, genres |-> <<>>,
     poster_path |-> PyNone, backdrop_path |-> PyNone, created_by |-> <<>>]

\* tv/{id}/season/{season}/episode/{episode}
EpisodeFull == [name |-> "Pilot", overview |-> "A crash."]
EpisodeBare == [air_date |-> ""]

\* search/movie and search/tv: the first result is the one taken
SearchHit == [results |-> <<[id |-> 1], [id |-> 2]>>, total_results |-> "2"]
SearchEmpty == [results |-> <<>>, total_results |-> "0"]

\* the find page: the result rows, and the title page: what is found in it
FindHit ==
    [results |-> <<[has_link |-> FALSE, title_href |-> FALSE, imdb_id |-> "",
                    year |-> None],
                   [has_link |-> TRUE, title_href |-> TRUE, imdb_id |-> "tt9",
                    year |-> 1990],
                   [has_link |-> TRUE, title_href |-> TRUE, imdb_id |-> "tt1",
                    year |-> 1996]>>]
FindEmpty == [results |-> <<>>, other |-> ""]

PageFull ==
    [hero_title |-> "Heat", year |-> "1995", rating |-> "8.3",
     runtime |-> "2h 50m", genres |-> <<"Crime", "Drama">>, plot |-> "A heist.",
     director_section |-> <<"Bob">>,
     cast_section |-> <<"C1", "C2", "C1", "C3", "C4", "C5">>,
     languages |-> <<"English">>,
     poster_src |-> "https://m.media-amazon.com/i._V1_UX182_CR0,0,182,268_AL_.jpg"]
PageBare == [h1 |-> "Heat", year |-> "", cast_section |-> <<>>]
PageTv ==
    [hero_title |-> "Lost", tv_marker |-> "TV Series",
     episodes_span |-> "118 episodes"]

Ok(reply) == ~reply.error /\ reply.status = 200

MovieReplies == {Http(200, MovieFull), Http(200, MovieBare), Http(404, NoDoc)}
CreditsReplies == {Http(200, CreditsFull), Http(200, CreditsBare), TransportError}
TvReplies == {Http(200, TvFull), Http(200, TvBare), TransportError}
EpisodeReplies == {Http(200, EpisodeFull), Http(200, EpisodeBare), Http(404, NoDoc)}
SearchReplies == {Http(200, SearchHit), Http(200, SearchEmpty), Http(500, NoDoc)}
FindReplies == {Http(200, FindHit), Http(200, FindEmpty), TransportError}
PageReplies == {Http(200, PageFull), Http(200, PageBare), Http(200, PageTv),
                Http(503, NoDoc)}

\* ------------------------------------------------------------------------
\* SpecCache: the cache operations called directly
\* ------------------------------------------------------------------------

\* The times the clock is observed at: within the default ttl, at it, and
\* past the 24 h retention
TimePoints == {0, 1800, 3600, 90000}

\* The calls cache_movie_data is tried with: a payload is {"data": record}
\* except in search_title, where it is {"imdb_id": id}; every call site uses
\* the default ttl, and one call here passes a shorter one.
CacheCalls ==
    {[key |-> MovieKey(1), ttl |-> DEFAULT_TTL,
      data |-> [data |-> FormatMovie(MovieFull, 1, CreditsFull)]],
     [key |-> MovieKey(1), ttl |-> 1800,
      data |-> [data |-> FormatMovie(MovieBare, 1, NoDoc)]],
     [key |-> MovieSearchKey(<<"a">>, None), ttl |-> DEFAULT_TTL,
      data |-> [data |-> FormatMovie(MovieFull, 1, CreditsFull)]],
     [key |-> ImdbSearchKey(<<"a">>, None), ttl |-> DEFAULT_TTL,
      data |-> [imdb_id |-> "tt1"]]}

CacheKeys == {c.key : c \in CacheCalls}

\* a direct call cache_movie_data(key, data, ttl)
CachePut(call) ==
    LET r == cache_movie_data(movie_cache, call.key, call.data, call.ttl)
        prev == find_one(movie_cache, call.key)
    IN /\ movie_cache' = r.coll
       /\ lastOp' = [op |-> "put", key |-> call.key, raised |-> r.raised,
                     replaced |-> prev # NoDoc /\ find_one(r.coll, call.key) # prev]
       /\ puts' = (call.key :> [data |-> call.data, ttl |-> call.ttl, at |-> now,
                                raised |-> r.raised]) @@ puts
       /\ UNCHANGED <<now, dbUp, indexes, lastCall, ncalls, handlerVars, applied, sideVars>>

\* a direct call get_cached_movie_data(key)
CacheGet(key) ==
    LET r == get_cached_movie_data(movie_cache, key)
    IN /\ lastOp' = [op |-> "get", key |-> key, raised |-> r.raised,
                     doc |-> r.doc]
       /\ UNCHANGED <<now, dbUp, indexes, movie_cache, puts, lastCall, ncalls, handlerVars, applied, sideVars>>

\* time passes
Tick(t) ==
    /\ t > now
    /\ now' = t
    /\ lastOp' = [op |-> "tick"]
    /\ UNCHANGED <<dbUp, indexes, movie_cache, puts, lastCall, ncalls, handlerVars, applied, sideVars>>

\* the store's expiry pass runs (only an existing expiry index has one)
TtlMonitor ==
    /\ "movie_cache.created_at" \in indexes
    /\ dbUp
    /\ movie_cache' = TtlExpire(movie_cache)
    /\ lastOp' = [op |-> "ttl_monitor"]
    /\ UNCHANGED <<now, dbUp, indexes, puts, lastCall, ncalls, handlerVars, applied, sideVars>>

\* After init_database(): connected, an empty cache, and the indexes that
\* create_indexes created before its first failing call, if any.
InitStore ==
    /\ now = 0
    /\ dbUp = TRUE
    /\ indexes \in {create_indexes(k) : k \in 1..5}
    /\ movie_cache = {}

NoCall == [op |-> "none", kind |-> "none"]
NoApply == [fn |-> "none"]

\* no request arrived yet
NoRequest == [user_id |-> None, text |-> <<>>]

\* rate_limit has admitted no call, no get_user_config call is running
InitSide ==
    /\ call_times = <<>>
    /\ tasks = <<>>
    /\ invoked = <<>>

InitHandler ==
    /\ configs = {}
    /\ pc = "idle"
    /\ intent = [title |-> <<>>, year |-> None, season |-> None, episode |-> None]
    /\ movie_data = NoDoc
    /\ source = PyNone
    /\ calls = <<>>
    /\ sent = <<>>
    /\ nreq = 0
    /\ request = NoRequest

InitCache ==
    /\ InitStore
    /\ InitHandler
    /\ lastOp = [op |-> "none"]
    /\ puts = <<>>
    /\ lastCall = NoCall
    /\ ncalls = 0
    /\ applied = NoApply
    /\ InitSide

NextCache ==
    \/ \E call \in CacheCalls : CachePut(call)
    \/ \E key \in CacheKeys : CacheGet(key)
    \/ \E t \in TimePoints : Tick(t)
    \/ TtlMonitor

SpecCache == InitCache /\ [][NextCache]_vars

\* ------------------------------------------------------------------------
\* SpecClients: the operations of the two clients called directly
\* ------------------------------------------------------------------------

\* How many client operations one behaviour calls
MaxCalls == 2

\* The arguments tried
Titles == {<<"a">>}
Years == {None}
TvIds == {1}
MovieIds == {1}
SeasonEpisodes == {<<None, None>>, <<1, 2>>, <<0, 5>>}

\* What is kept of a call: the operation, its cache key, the result, the
\* fetches issued with the replies they got, which of them failed, and
\* whether the call changed the cache (the entry of its key, any entry).
CallRecord(op, key, season, episode, r, names, replies) ==
    LET issued == 1..(IF Len(r.fetches) < Len(names) THEN Len(r.fetches)
                      ELSE Len(names))
    IN [op |-> op, key |-> key, season |-> season, episode |-> episode,
        kind |-> r.kind, rec |-> r.rec, fetches |-> r.fetches,
        replies |-> [i \in issued |-> replies[i]],
        failed |-> {names[i] : i \in {j \in issued : ~Ok(replies[j])}},
        wrote |-> find_one(r.coll, key) # find_one(movie_cache, key),
        changed |-> r.coll # movie_cache]

Called(r, rec) ==
    /\ ncalls < MaxCalls
    /\ ncalls' = ncalls + 1
    /\ movie_cache' = r.coll
    /\ lastCall' = rec
    /\ UNCHANGED <<now, dbUp, indexes, lastOp, puts, handlerVars, applied, sideVars>>

CallGetMovieDetails(movie_id, rMovie, rCredits) ==
    LET r == get_movie_details(movie_cache, movie_id, rMovie, rCredits)
    IN Called(r, CallRecord("get_movie_details", MovieKey(movie_id), None, None, r,
                            <<"detail", "credits">>, <<rMovie, rCredits>>))

CallGetTvDetails(tv_id, season, episode, rTv, rEpisode) ==
    LET r == get_tv_details(movie_cache, tv_id, season, episode, rTv, rEpisode)
    IN Called(r, CallRecord("get_tv_details", TvKey(tv_id, season, episode),
                            season, episode, r,
                            <<"detail", "episode">>, <<rTv, rEpisode>>))

CallSearchMovie(title, year, rSearch, rMovie, rCredits) ==
    LET r == search_movie(movie_cache, title, year, rSearch, rMovie, rCredits)
    IN Called(r, CallRecord("search_movie", MovieSearchKey(title, year), None, None, r,
                            <<"search", "detail", "credits">>,
                            <<rSearch, rMovie, rCredits>>))

CallSearchTv(title, year, rSearch, rTv) ==
    LET r == search_tv(movie_cache, title, year, rSearch, rTv)
    IN Called(r, CallRecord("search_tv", TvSearchKey(title, year), None, None, r,
                            <<"search", "detail">>, <<rSearch, rTv>>))

\* time passes between calls
TimePasses(t) ==
    /\ t \in {0, DEFAULT_TTL}
    /\ t > now
    /\ now' = t
    /\ UNCHANGED <<dbUp, indexes, movie_cache, lastOp, puts, lastCall, ncalls, handlerVars, applied, sideVars>>

\* the store becomes unreachable / reachable again
DbOutage ==
    /\ dbUp
    /\ dbUp' = FALSE
    /\ UNCHANGED <<now, indexes, movie_cache, lastOp, puts, lastCall, ncalls, handlerVars, applied, sideVars>>

DbRecover ==
    /\ ~dbUp
    /\ dbUp' = TRUE
    /\ UNCHANGED <<now, indexes, movie_cache, lastOp, puts, lastCall, ncalls, handlerVars, applied, sideVars>>

InitClients == InitCache

NextClients ==
    \/ \E id \in MovieIds, rMovie \in MovieReplies, rCredits \in CreditsReplies :
          CallGetMovieDetails(id, rMovie, rCredits)
    \/ \E id \in TvIds, se \in SeasonEpisodes, rTv \in TvReplies,
          rEpisode \in EpisodeReplies :
          CallGetTvDetails(id, se[1], se[2], rTv, rEpisode)
    \/ \E title \in Titles, year \in Years, rSearch \in SearchReplies,
          rMovie \in MovieReplies, rCredits \in CreditsReplies :
          CallSearchMovie(title, year, rSearch, rMovie, rCredits)
    \/ \E title \in Titles, year \in Years, rSearch \in SearchReplies,
          rTv \in TvReplies :
          CallSearchTv(title, year, rSearch, rTv)
    \/ \E t \in TimePoints : TimePasses(t)
    \/ DbOutage
    \/ DbRecover

SpecClients == InitClients /\ [][NextClients]_vars

\* ------------------------------------------------------------------------
\* Claims about the structured client (checked under SpecClients)
\* ------------------------------------------------------------------------

StructuredOps == {"get_movie_details", "get_tv_details", "search_movie", "search_tv"}
EpisodeFields == {"season", "episode", "episode_title", "episode_plot"}

\* The fields of NormalizedMedia (the source id is tmdb_id or imdb_id)
NormalizedMediaFields ==
    {"title", "original_title", "year", "type", "language", "genres", "rating",
     "plot", "runtime", "director", "cast", "poster_url", "backdrop_url",
     "season", "episode", "episode_title", "episode_plot", "seasons", "episodes"}

ShowLevel(rec) == [f \in DOMAIN rec \ EpisodeFields |-> rec[f]]

C7_EveryFieldPresent ==
    (lastCall.op \in StructuredOps /\ lastCall.kind = "record") =>
        /\ NormalizedMediaFields \subseteq DOMAIN lastCall.rec
        /\ \A f \in DOMAIN lastCall.rec :
              lastCall.rec[f] # PyNone /\ lastCall.rec[f] # ""

\* ------------------------------------------------------------------------
\* Claims about the cache (checked under SpecCache)
\* ------------------------------------------------------------------------

\* the document a successful put p on key k leaves: the payload, the ttl and
\* the time of the call
PutDoc(k, p) == p.data @@ [key |-> k, cached_at |-> p.at, ttl |-> p.ttl]

\* C8: cache round trip, after any earlier puts on other keys:
\* cache_movie_data(k, v, ttl) succeeds, and a following
\* get_cached_movie_data(k) returns the payload v while now - cached_at < ttl
\* and absent from now - cached_at >= ttl on.
C8_CacheRoundTrip ==
    /\ lastOp.op = "put" => lastOp.raised = ""
    /\ (lastOp.op = "get" /\ lastOp.key \in DOMAIN puts) =>
          LET p == puts[lastOp.key]
          IN IF now - p.at < p.ttl
             THEN /\ lastOp.doc # NoDoc
                  /\ \A f \in DOMAIN p.data : f \in DOMAIN lastOp.doc
                                                /\ lastOp.doc[f] = p.data[f]
             ELSE lastOp.doc = NoDoc

\* C9: once the store's expiry pass has run, no entry written by
\* cache_movie_data that is older than the 24 h retention is left in
\* movie_cache, whatever its ttl.
C9_RetentionCeiling ==
    lastOp.op = "ttl_monitor" =>
        \A d \in movie_cache : now - d.cached_at <= EXPIRE_AFTER_SECONDS

MaxRequests == 1

\* int(os.getenv("ADMIN_USER_ID", "0"))
ADMIN_USER_ID == 0
Users == {ADMIN_USER_ID, ADMIN_USER_ID + 1}

\* The texts of the requests tried
Queries ==
    {<<" ">>,
     <<"a">>,
     <<"a", " ", "1", "9", "9", "5">>,
     <<"1", "9", "9", "5">>,
     <<"a", " ", "S", "1", "E", "2">>,
     <<"a", " ", "S", "0", "E", "5">>,
     <<"a", " ", "S", "0", "E", "0">>}

\* the artwork download
Jpeg == [image |-> "jpeg"]
ImageReplies == {Http(200, Jpeg), Http(404, NoDoc), TransportError}

\* get_user_config(user_id): the user's document, created with the defaults
\* when there is none
get_user_config(coll, user_id) ==
    LET found == {c \in coll : c.user_id = user_id}
        config == [user_id |-> user_id,
                   caption_template |-> "DEFAULT_CAPTION",
                   landscape_mode |-> FALSE,
                   landscape_caption |-> "DEFAULT_LANDSCAPE_CAPTION",
                   created_at |-> now]
    IN IF ~dbUp THEN [raised |-> "ConnectionFailure", config |-> NoDoc, coll |-> coll]
       ELSE IF found # {}
       THEN [raised |-> "", config |-> CHOOSE c \in found : TRUE, coll |-> coll]
       ELSE [raised |-> "", config |-> config, coll |-> coll \cup {config}]

\* download_image(url): an image on status 200, else None
download_image(url, rImage) ==
    IF ~StrTruthy(url) THEN NoDoc
    ELSE IF ~rImage.error /\ rImage.status = 200 THEN rImage.body ELSE NoDoc

\* lines 150-153 with the backdrop taken whenever the record has one,
\* whatever the mode
PosterUrl_backdropFirst(data, landscape_mode) ==
    IF StrTruthy(Get(data, "backdrop_url", PyNone))
    THEN data.backdrop_url ELSE Get(data, "poster_url", PyNone)

\* lines 150-153: the artwork URL chosen (the backdrop first in landscape mode)
PosterUrl(data, landscape_mode) ==
    IF landscape_mode /\ StrTruthy(Get(data, "backdrop_url", PyNone))
    THEN data.backdrop_url ELSE Get(data, "poster_url", PyNone)

\* generate_poster without the check of lines 161-163
generate_poster_unchecked(data, landscape_mode, rImage) ==
    StrTruthy(PosterUrl(data, landscape_mode))

\* generate_poster(movie_data, ...): a buffer (TRUE) or None (FALSE)
generate_poster(data, landscape_mode, rImage) ==
    /\ StrTruthy(PosterUrl(data, landscape_mode))
    /\ NonEmpty(download_image(PosterUrl(data, landscape_mode), rImage))

\* a message sent or edited, and a client call with how it ended
Msg(kind) == [kind |-> kind, source |-> PyNone]
Call(op, r) == [op |-> op, kind |-> r.kind]

\* line 67: if season or episode
WantsTv(season, episode) == Truthy(season) \/ Truthy(episode)

\* line 69: if movie_data and season and episode
WantsEpisode(data, season, episode) ==
    NonEmpty(data) /\ Truthy(season) /\ Truthy(episode)

\* lines 82-83: if movie_data: source = "TMDB"
TmdbSource(data) == IF NonEmpty(data) THEN "TMDB" ELSE PyNone

\* line 88 with the scraped client asked whatever the structured stage left
UseImdb_always(data) == TRUE

\* line 88: if not movie_data
UseImdb(data) == ~NonEmpty(data)

\* the structured stage asking search_tv once more when it found nothing,
\* before the scraped client is tried
AfterTmdb_retry(data) == IF UseImdb(data) THEN "tmdb_tv" ELSE "decide"

\* where the handler goes when the structured stage is over
AfterTmdb(data) == IF UseImdb(data) THEN "imdb" ELSE "decide"

storeVars == <<now, dbUp, indexes>>

\* the sender check letting every sender through
NotAdmin_never(user_id) == FALSE

\* movies.py line 22 and decorators.py line 18: the sender is not the admin
NotAdmin(user_id) == user_id # ADMIN_USER_ID

\* Lines 19-49: the sender check, the empty text, parse_query
HandleRequest(user_id, text) ==
    LET query == Strip(text, Spaces)
        parsed == parse_query(query)
    IN /\ pc \in {"idle", "done"}
       /\ nreq < MaxRequests
       /\ nreq' = nreq + 1
       /\ movie_data' = NoDoc
       /\ source' = PyNone
       /\ calls' = <<>>
       /\ IF NotAdmin(user_id)
          THEN /\ sent' = <<Msg("restricted")>>
               /\ pc' = "done"
               /\ UNCHANGED intent
          ELSE IF query = <<>>
          THEN /\ sent' = <<>>
               /\ pc' = "done"
               /\ UNCHANGED intent
          ELSE /\ intent' = parsed
               /\ sent' = IF parsed.title = <<>> THEN <<Msg("unparsed")>> ELSE <<>>
               /\ pc' = IF parsed.title = <<>> THEN "done" ELSE "config"
       /\ applied' = NoApply
       /\ request' = [user_id |-> user_id, text |-> text]
       /\ UNCHANGED <<storeVars, movie_cache, configs, directVars, sideVars>>

\* Lines 52-59: the configuration is read (an exception goes to the handler
\* of line 159), the searching message is sent
GetUserConfig ==
    LET r == get_user_config(configs, ADMIN_USER_ID)
    IN /\ pc = "config"
       /\ configs' = r.coll
       /\ sent' = Append(sent, Msg(IF r.raised # "" THEN "error" ELSE "searching"))
       /\ pc' = IF r.raised # "" THEN "done" ELSE "tmdb"
       /\ UNCHANGED <<storeVars, movie_cache, directVars, intent, movie_data,
                      source, calls, nreq, request, applied, sideVars>>

\* Line 68: search_tv for a request with a season or an episode
TmdbSearchTv(rSearch, rTv) ==
    LET r == search_tv(movie_cache, intent.title, intent.year, rSearch, rTv)
        enrich == r.kind # "raise"
                    /\ WantsEpisode(r.rec, intent.season, intent.episode)
    IN /\ pc = "tmdb"
       /\ WantsTv(intent.season, intent.episode)
       /\ movie_cache' = r.coll
       /\ calls' = Append(calls, Call("search_tv", r))
       /\ movie_data' = r.rec
       /\ source' = IF enrich THEN source ELSE TmdbSource(r.rec)
       /\ pc' = IF enrich THEN "enrich" ELSE AfterTmdb(r.rec)
       /\ UNCHANGED <<storeVars, configs, directVars, intent, sent, nreq, request, applied, sideVars>>

\* Lines 71-75 and 82-85: get_tv_details for the season and episode asked
TmdbEnrich(rTv, rEpisode) ==
    LET r == get_tv_details(movie_cache, movie_data.tmdb_id, intent.season,
                            intent.episode, rTv, rEpisode)
        data == IF r.kind = "record" THEN r.rec ELSE movie_data
    IN /\ pc = "enrich"
       /\ movie_cache' = r.coll
       /\ calls' = Append(calls, Call("get_tv_details", r))
       /\ movie_data' = data
       /\ source' = IF r.kind = "raise" THEN source ELSE TmdbSource(data)
       /\ pc' = AfterTmdb(data)
       /\ UNCHANGED <<storeVars, configs, directVars, intent, sent, nreq, request, applied, sideVars>>

\* Lines 78-79: search_movie for a request without season and episode
TmdbSearchMovie(rSearch, rMovie, rCredits) ==
    LET r == search_movie(movie_cache, intent.title, intent.year, rSearch,
                          rMovie, rCredits)
    IN /\ pc = "tmdb"
       /\ ~WantsTv(intent.season, intent.episode)
       /\ movie_cache' = r.coll
       /\ calls' = Append(calls, Call("search_movie", r))
       /\ movie_data' = r.rec
       /\ source' = TmdbSource(r.rec)
       /\ pc' = IF r.kind = "absent" THEN "tmdb_tv" ELSE AfterTmdb(r.rec)
       /\ UNCHANGED <<storeVars, configs, directVars, intent, sent, nreq, request, applied, sideVars>>

\* Line 80: search_tv after search_movie found nothing
TmdbSearchTvSecond(rSearch, rTv) ==
    LET r == search_tv(movie_cache, intent.title, intent.year, rSearch, rTv)
    IN /\ pc = "tmdb_tv"
       /\ movie_cache' = r.coll
       /\ calls' = Append(calls, Call("search_tv", r))
       /\ movie_data' = r.rec
       /\ source' = TmdbSource(r.rec)
       /\ pc' = AfterTmdb(r.rec)
       /\ UNCHANGED <<storeVars, configs, directVars, intent, sent, nreq, request, applied, sideVars>>

\* the scraped stage without its try block: an exception of the scraped
\* client goes to the handler of line 159
ImdbStage_noTry(rSearch, rPage) ==
    LET r == search_and_get_details(movie_cache, intent.title, intent.year,
                                    rSearch, rPage)
    IN /\ pc = "imdb"
       /\ movie_cache' = r.coll
       /\ calls' = Append(calls, Call("search_and_get_details", r))
       /\ movie_data' = r.rec
       /\ source' = IF r.kind = "record" THEN "IMDb" ELSE source
       /\ sent' = IF r.kind = "raise"
                  THEN sent \o <<Msg("trying_imdb"), Msg("error")>>
                  ELSE Append(sent, Msg("trying_imdb"))
       /\ pc' = IF r.kind = "raise" THEN "done" ELSE "decide"
       /\ UNCHANGED <<storeVars, configs, directVars, intent, nreq, request, applied, sideVars>>

\* Lines 88-99: the scraped client is asked; its exception is logged
ImdbStage(rSearch, rPage) ==
    LET r == search_and_get_details(movie_cache, intent.title, intent.year,
                                    rSearch, rPage)
    IN /\ pc = "imdb"
       /\ movie_cache' = r.coll
       /\ calls' = Append(calls, Call("search_and_get_details", r))
       /\ movie_data' = r.rec
       /\ source' = IF r.kind = "record" THEN "IMDb" ELSE source
       /\ sent' = Append(sent, Msg("trying_imdb"))
       /\ pc' = "decide"
       /\ UNCHANGED <<storeVars, configs, directVars, intent, nreq, request, applied, sideVars>>

\* Lines 101-108: nothing was found
ReplyNotFound ==
    /\ pc = "decide"
    /\ ~NonEmpty(movie_data)
    /\ sent' = Append(sent, Msg("not_found"))
    /\ pc' = "done"
    /\ UNCHANGED <<storeVars, movie_cache, configs, directVars, intent,
                   movie_data, source, calls, nreq, request, applied, sideVars>>

\* Lines 111-164: the found message, the poster, the photo or the details.
\* After the photo the searching message is deleted (line 155); when that
\* call raises, the handler of line 159 replies with the error.
ReplyFound(rImage, deleted) ==
    LET config == CHOOSE c \in configs : c.user_id = ADMIN_USER_ID
        poster_buffer == generate_poster(movie_data, config.landscape_mode, rImage)
        found == [kind |-> "found", source |-> source]
        photo == [kind |-> "photo", source |-> source]
    IN /\ pc = "decide"
       /\ NonEmpty(movie_data)
       /\ sent' = sent \o
                  (IF poster_buffer
                   THEN IF deleted THEN <<found, photo>>
                        ELSE <<found, photo, Msg("error")>>
                   ELSE <<found, Msg("poster_failed"),
                          [kind |-> "details", source |-> source]>>)
       /\ pc' = "done"
       /\ applied' = [fn |-> "generate_poster",
                      url |-> PosterUrl(movie_data, config.landscape_mode),
                      reply |-> rImage, result |-> poster_buffer]
       /\ UNCHANGED <<storeVars, movie_cache, configs, directVars, intent,
                      movie_data, source, calls, nreq, request, sideVars>>

\* A handler wrapped with admin_only is called (decorators.py lines 10-30):
\* another sender gets the restriction message, for the admin the wrapped
\* handler is invoked
AdminOnlyCall(user_id) ==
    /\ pc \in {"idle", "done"}
    /\ nreq < MaxRequests
    /\ nreq' = nreq + 1
    /\ request' = [user_id |-> user_id, text |-> <<>>]
    /\ movie_data' = NoDoc
    /\ source' = PyNone
    /\ calls' = <<>>
    /\ pc' = "done"
    /\ sent' = IF NotAdmin(user_id) THEN <<Msg("restricted")>> ELSE <<>>
    /\ invoked' = IF NotAdmin(user_id) THEN invoked
                  ELSE Append(invoked, [user_id |-> user_id, time |-> now])
    /\ applied' = NoApply
    /\ UNCHANGED <<storeVars, movie_cache, configs, directVars, intent,
                   call_times, tasks>>

Init == InitCache

Next ==
    \/ \E user_id \in Users, text \in Queries : HandleRequest(user_id, text)
    \/ \E user_id \in Users : AdminOnlyCall(user_id)
    \/ GetUserConfig
    \/ \E rSearch \in SearchReplies, rTv \in TvReplies : TmdbSearchTv(rSearch, rTv)
    \/ \E rTv \in TvReplies, rEpisode \in EpisodeReplies : TmdbEnrich(rTv, rEpisode)
    \/ \E rSearch \in SearchReplies, rMovie \in MovieReplies,
          rCredits \in CreditsReplies : TmdbSearchMovie(rSearch, rMovie, rCredits)
    \/ \E rSearch \in SearchReplies, rTv \in TvReplies :
          TmdbSearchTvSecond(rSearch, rTv)
    \/ \E rSearch \in FindReplies, rPage \in PageReplies : ImdbStage(rSearch, rPage)
    \/ ReplyNotFound
    \/ \E rImage \in ImageReplies, deleted \in BOOLEAN : ReplyFound(rImage, deleted)
    \/ \E t \in TimePoints : TimePasses(t)
    \/ DbOutage
    \/ DbRecover

Spec == Init /\ [][Next]_vars

\* ------------------------------------------------------------------------
\* Claims about the request handler (checked under Spec)
\* ------------------------------------------------------------------------

SearchOps == {"search_movie", "search_tv"}
Scraped == "search_and_get_details"

\* the structured stage of the request is over
StageOver == pc \in {"imdb", "decide"} \/ (pc = "done" /\ calls # <<>>)

\* C1 as stated: once a structured-client call of the request raised, the
\* scraped client is called before the request decides what to reply; and
\* every 'found' message names the source "TMDB" or "IMDb".
C1_TmdbExceptionIsAbsent ==
    /\ (/\ pc \in {"decide", "done"}
        /\ \E i \in DOMAIN calls :
              calls[i].op \in StructuredOps /\ calls[i].kind = "raise")
          => \E j \in DOMAIN calls : calls[j].op = Scraped
    /\ \A i \in DOMAIN sent :
          sent[i].kind = "found" => sent[i].source \in {"TMDB", "IMDb"}

\* C2: a request that reached the lookups, none of whose client calls
\* returned a record, asked the scraped client and ended with the 'not
\* found' message, having sent no error, found, photo or details message.
C2_NothingFoundEndsNotFound ==
    (pc = "done" /\ calls # <<>> /\ \A i \in DOMAIN calls : calls[i].kind # "record")
        => /\ calls[Len(calls)].op = Scraped
           /\ sent[Len(sent)].kind = "not_found"
           /\ \A i \in DOMAIN sent :
                 sent[i].kind \in {"searching", "trying_imdb", "not_found"}

C2_Witness ==
    /\ pc = "done"
    /\ Len(calls) = 3
    /\ calls[1] = [op |-> "search_movie", kind |-> "absent"]
    /\ calls[2] = [op |-> "search_tv", kind |-> "raise"]
    /\ calls[3] = [op |-> Scraped, kind |-> "raise"]
    /\ sent[Len(sent)].kind = "not_found"

\* C3: the scraped client is called at most once, as the last call of the
\* request, after at least one structured search and only structured
\* searches that returned no record; it is not called while the structured
\* stage is running, nor in a request where a structured call returned a
\* record.
C3_ScrapedOnlyAfterStructuredAbsent ==
    /\ \A j \in DOMAIN calls :
          calls[j].op = Scraped =>
             /\ j = Len(calls) /\ j > 1
             /\ \A i \in 1..(j - 1) :
                   calls[i].op \in SearchOps /\ calls[i].kind # "record"
    /\ (\E i \in DOMAIN calls :
           calls[i].op \in StructuredOps /\ calls[i].kind = "record")
          => \A j \in DOMAIN calls : calls[j].op # Scraped
    /\ pc \in {"tmdb", "enrich", "tmdb_tv", "imdb"}
          => \A j \in DOMAIN calls : calls[j].op # Scraped

C3_Witness ==
    /\ pc = "done"
    /\ Len(calls) = 3
    /\ calls[2] = [op |-> "search_tv", kind |-> "absent"]
    /\ calls[3] = [op |-> Scraped, kind |-> "record"]
    /\ sent[Len(sent)] = [kind |-> "photo", source |-> "IMDb"]

\* C4 as stated: a request whose intent has a season or an episode (0
\* included) calls search_tv first and never search_movie, and calls
\* get_tv_details next when search_tv returned a record; any other request
\* calls search_movie first, and search_tv exactly when search_movie
\* returned absent.
C4_StructuredRouting ==
    StageOver =>
        IF intent.season # None \/ intent.episode # None
        THEN /\ calls[1].op = "search_tv"
             /\ \A i \in DOMAIN calls : calls[i].op # "search_movie"
             /\ (/\ intent.season # None /\ intent.episode # None
                 /\ calls[1].kind = "record")
                   => (Len(calls) >= 2 /\ calls[2].op = "get_tv_details")
        ELSE /\ calls[1].op = "search_movie"
             /\ (\E i \in 2..Len(calls) : calls[i].op = "search_tv")
                   <=> calls[1].kind = "absent"


\* ------------------------------------------------------------------------
\* SpecKeys: the cache keys of the call sites, derived for pairs of lookups
\* ------------------------------------------------------------------------

\* After init_database() with every index created; nothing was called yet
InitPure ==
    /\ now = 0
    /\ dbUp = TRUE
    /\ indexes = create_indexes(5)
    /\ movie_cache = {}
    /\ InitHandler
    /\ lastOp = [op |-> "none"]
    /\ puts = <<>>
    /\ lastCall = NoCall
    /\ ncalls = 0
    /\ applied = NoApply
    /\ InitSide

\* what a function application leaves alone
restVars ==
    <<now, dbUp, indexes, movie_cache, handlerVars, directVars, sideVars>>

\* The largest TMDB id of the lookups tried
MaxId == 2

KeyTitles == {<<"a">>, <<"a", "_", "n", "o">>}
KeyYears == {None, 0, 1995}
KeyNumbers == {None, 0, 1}
ImdbIds == {"tt1", "tt2"}

\* a lookup: the call kind and its parameters (the others are unset)
Lookup(kind, title, year, id, imdb_id, season, episode) ==
    [kind |-> kind, title |-> title, year |-> year, id |-> id,
     imdb_id |-> imdb_id, season |-> season, episode |-> episode]

Lookups ==
    {Lookup(kind, title, year, None, "", None, None) :
        kind \in {"tmdb_movie_search", "tmdb_tv_search", "imdb_search"},
        title \in KeyTitles, year \in KeyYears}
    \cup {Lookup("tmdb_movie", <<>>, None, id, "", None, None) : id \in 1..MaxId}
    \cup {Lookup("imdb_details", <<>>, None, None, imdb_id, None, None) :
            imdb_id \in ImdbIds}
    \cup {Lookup("tmdb_tv", <<>>, None, id, "", season, episode) :
            id \in 1..MaxId, season \in KeyNumbers, episode \in KeyNumbers}

\* the cache_key the call site of the lookup's kind derives
cache_key(l) ==
    CASE l.kind = "tmdb_movie_search" -> MovieSearchKey(l.title, l.year)
      [] l.kind = "tmdb_tv_search"    -> TvSearchKey(l.title, l.year)
      [] l.kind = "imdb_search"       -> ImdbSearchKey(l.title, l.year)
      [] l.kind = "tmdb_movie"        -> MovieKey(l.id)
      [] l.kind = "imdb_details"      -> ImdbDetailsKey(l.imdb_id)
      [] l.kind = "tmdb_tv"           -> TvKey(l.id, l.season, l.episode)

\* two lookups derive their keys
DeriveKeys(a, b) ==
    /\ applied = NoApply
    /\ applied' = [fn |-> "cache_key", first |-> a, second |-> b,
                   key1 |-> cache_key(a), key2 |-> cache_key(b)]
    /\ UNCHANGED restVars

NextKeys == \E a \in Lookups, b \in Lookups : DeriveKeys(a, b)

SpecKeys == InitPure /\ [][NextKeys]_vars

\* C11 as stated: two lookups get the same cache key only if they are the
\* same call kind with the same parameters, an unset season, episode or year
\* being different from the number 0.
C11_KeysInjective ==
    applied.fn = "cache_key" =>
        (applied.key1 = applied.key2 => applied.first = applied.second)


\* ------------------------------------------------------------------------
\* SpecParse: parse_query applied to texts put together from pieces
\* ------------------------------------------------------------------------

\* How many pieces a text is put together from, at most
MaxPieces == 3

Pieces ==
    {<<"a">>, <<" ">>, <<"-">>,
     <<"S", "1", "E", "2">>, <<"s", "0", "e", "1">>,
     <<"S", "1">>, <<"E", "2">>,
     <<"1", "9", "9", "9">>, <<"2", "0", "0", "1">>,
     <<"S", "e", "a", "s", "o", "n", " ", "3", " ",
       "e", "p", "i", "s", "o", "d", "e", " ", "4">>}

RECURSIVE Concat(_)
Concat(ps) == IF ps = <<>> THEN <<>> ELSE Head(ps) \o Concat(Tail(ps))

\* the numbers written in the text have at most nine digits
FitsInt(s) == \A i \in 1..Len(s) : RunEnd(s, i, Digits) - i <= 9

Texts ==
    {t \in {Concat(ps) : ps \in UNION {[1..n -> Pieces] : n \in 0..MaxPieces}} :
        FitsInt(t)}

\* parse_query(text) is called
Parse(text) ==
    /\ applied = NoApply
    /\ applied' = [fn |-> "parse_query", query |-> text,
                   result |-> parse_query(text)]
    /\ UNCHANGED restVars

NextParse == \E text \in Texts : Parse(text)

SpecParse == InitPure /\ [][NextParse]_vars

\* the digits of the first compact marker of s, as numbers
MarkerSeason(s) ==
    LET ci == FirstMatch(s, "compact")
    IN ToInt(SubSeq(s, ci + 1, RunEnd(s, ci + 1, Digits) - 1))

MarkerEpisode(s) ==
    LET ci == FirstMatch(s, "compact")
    IN ToInt(SubSeq(s, RunEnd(s, ci + 1, Digits) + 1, CompactEnd(s, ci) - 1))

\* C12 as stated: for an input that contains a compact S<digits>E<digits>
\* marker, parse_query returns season and episode as positive integers equal
\* to the marker's digits, and a title that does not contain a marker.
C12_CompactMarkerExtracted ==
    (applied.fn = "parse_query" /\ FirstMatch(applied.query, "compact") # 0) =>
        /\ applied.result.season > 0
        /\ applied.result.episode > 0
        /\ applied.result.season = MarkerSeason(applied.query)
        /\ applied.result.episode = MarkerEpisode(applied.query)
        /\ FirstMatch(applied.result.title, "compact") = 0

\* the text with the matches of the marker pattern that applies removed
WithoutMarker(q) ==
    IF FirstMatch(q, "compact") # 0 THEN RemoveAll(q, "compact")
    ELSE IF FirstMatch(q, "long") # 0 THEN RemoveAll(q, "long")
    ELSE q

\* the text left after removing the marker and the year token, collapsing
\* whitespace and stripping spaces and hyphens
TextLeft(raw) ==
    Strip(CollapseSpaces(RemoveAll(WithoutMarker(Strip(raw, Spaces)), "year")),
          {"-", " "})

\* C13 as stated: parse_query returns an empty title exactly when the text
\* left after removing the marker and the year token, collapsing whitespace
\* and stripping spaces and hyphens is empty.
C13_EmptyTitleIffNothingLeft ==
    applied.fn = "parse_query" =>
        (applied.result.title = <<>> <=> TextLeft(applied.query) = <<>>)

\* a standalone 4-digit token in 1900-2099 starts at s[i]
YearTokenAt(s, i) ==
    /\ i + 3 <= Len(s)
    /\ \A k \in i..(i + 3) : s[k] \in Digits
    /\ ToInt(SubSeq(s, i, i + 3)) \in 1900..2099
    /\ (i = 1 \/ s[i - 1] \notin WordChars)
    /\ (i + 3 = Len(s) \/ s[i + 4] \notin WordChars)

YearTokens(s) == {i \in 1..Len(s) : YearTokenAt(s, i)}

NoMarker(s) == FirstMatch(s, "compact") = 0 /\ FirstMatch(s, "long") = 0

\* the smallest number of a non-empty set of numbers
Least(S) == CHOOSE i \in S : \A j \in S : i <= j

\* C14: for an input with no season/episode marker that contains a
\* standalone 4-digit token in 1900-2099, parse_query returns the first such
\* token as the integer year, returns season and episode unset, and returns a
\* title in which no year token appears.
C14_YearExtracted ==
    (/\ applied.fn = "parse_query"
     /\ NoMarker(applied.query)
     /\ YearTokens(applied.query) # {}) =>
        /\ applied.result.year
             = ToInt(SubSeq(applied.query, Least(YearTokens(applied.query)),
                            Least(YearTokens(applied.query)) + 3))
        /\ applied.result.season = None
        /\ applied.result.episode = None
        /\ YearTokens(applied.result.title) = {}

\* a title followed by a year token was parsed
C14_Witness ==
    /\ applied.fn = "parse_query"
    /\ applied.query = <<"a", " ", "1", "9", "9", "9">>
    /\ applied.result.year = 1999
    /\ applied.result.title = <<"a">>
    /\ applied.result.season = None


\* ------------------------------------------------------------------------
\* The caption formatter (services/poster_generator.py, _format_caption)
\* ------------------------------------------------------------------------

\* A template is a sequence of characters; a formatted caption is a sequence
\* whose elements are the template's literal characters and, for each
\* replacement field, the value put in its place.

\* Lines 74-79: str(value) for a text or number, "N/A" for anything else
SafeData(data) ==
    [k \in DOMAIN data |-> IF data[k] = PyNone THEN "N/A" ELSE data[k]]

\* f"{float(text):.1f}" on the ratings the records carry; a text float()
\* refuses is left as it is (line 86)
OneDecimal(text) ==
    CASE text = "7.9" -> "7.9" [] text = "8" -> "8.0" [] text = "7.25" -> "7.2"
      [] OTHER -> text

\* Lines 82-87: the rating with one decimal
WithRating(safe_data) ==
    IF "rating" \in DOMAIN safe_data /\ safe_data.rating # "N/A"
    THEN [safe_data EXCEPT !.rating = OneDecimal(safe_data.rating)]
    ELSE safe_data

\* str.format: the index of the '}' that closes the replacement field whose
\* text starts at i (braces nest), 0 if the template ends first
RECURSIVE FieldEnd(_, _, _)
FieldEnd(t, i, depth) ==
    IF i > Len(t) THEN 0
    ELSE IF t[i] = "{" THEN FieldEnd(t, i + 1, depth + 1)
    ELSE IF t[i] = "}"
         THEN IF depth = 1 THEN i ELSE FieldEnd(t, i + 1, depth - 1)
    ELSE FieldEnd(t, i + 1, depth)

Formatted(text) == [raised |-> "", text |-> text]
FormatError(e) == [raised |-> e, text |-> <<>>]

\* the piece x followed by the rest, unless the rest raised
Then(x, rest) == IF rest.raised # "" THEN rest ELSE Formatted(<<x>> \o rest.text)

\* the literal text xs followed by the rest, unless the rest raised
Literal(xs, rest) == IF rest.raised # "" THEN rest ELSE Formatted(xs \o rest.text)

\* the first position from i on that holds a brace, Len(t) + 1 if none
NextBrace(t, i) ==
    IF \E k \in i..Len(t) : t[k] \in {"{", "}"}
    THEN CHOOSE k \in i..Len(t) :
            /\ t[k] \in {"{", "}"}
            /\ \A m \in i..(k - 1) : t[m] \notin {"{", "}"}
    ELSE Len(t) + 1

\* what a replacement field with this name does with keyword arguments only:
\* '{' in the name is refused, an empty or numeric name asks for a positional
\* argument, any other name is looked up
FieldError(name, kwargs) ==
    IF "{" \in {name[k] : k \in 1..Len(name)} THEN "ValueError"
    ELSE IF \A k \in 1..Len(name) : name[k] \in Digits THEN "IndexError"
    ELSE IF Flat(name) \notin DOMAIN kwargs THEN "KeyError"
    ELSE ""

\* template.format(**kwargs) from position i on: '{{' and '}}' are literal
\* braces, a single '}' and an unclosed '{' are refused
RECURSIVE FormatFrom(_, _, _)
FormatFrom(t, i, kwargs) ==
    IF i > Len(t) THEN Formatted(<<>>)
    ELSE IF t[i] = "{" /\ i < Len(t) /\ t[i + 1] = "{"
         THEN Then("{", FormatFrom(t, i + 2, kwargs))
    ELSE IF t[i] = "{"
         THEN LET j == FieldEnd(t, i + 1, 1)
              IN IF j = 0 THEN FormatError("ValueError")
                 ELSE IF FieldError(SubSeq(t, i + 1, j - 1), kwargs) # ""
                 THEN FormatError(FieldError(SubSeq(t, i + 1, j - 1), kwargs))
                 ELSE Then(kwargs[Flat(SubSeq(t, i + 1, j - 1))],
                           FormatFrom(t, j + 1, kwargs))
    ELSE IF t[i] = "}" /\ i < Len(t) /\ t[i + 1] = "}"
         THEN Then("}", FormatFrom(t, i + 2, kwargs))
    ELSE IF t[i] = "}" THEN FormatError("ValueError")
    ELSE Literal(SubSeq(t, i, NextBrace(t, i) - 1),
                 FormatFrom(t, NextBrace(t, i), kwargs))

format(template, kwargs) == FormatFrom(template, 1, kwargs)

\* _format_caption with only the handler of line 91: another exception of
\* format leaves the function
Caught_keyErrorOnly(template, f) ==
    [raised |-> IF f.raised \notin {"", "KeyError"} THEN f.raised ELSE "",
     text |-> IF f.raised # "" THEN template ELSE f.text,
     failure |-> f.raised]

\* _format_caption returning an empty caption when format fails
Caught_blank(template, f) ==
    [raised |-> "", text |-> f.text, failure |-> f.raised]

\* what _format_caption returns, f being what template.format did
Caught(template, f) ==
    [raised |-> "", text |-> IF f.raised # "" THEN template ELSE f.text,
     failure |-> f.raised]

\* Lines 89-96: the formatted caption, or the template when format raised
\* (failure records what format raised)
_format_caption(template, data) ==
    Caught(template, format(template, WithRating(SafeData(data))))


\* ------------------------------------------------------------------------
\* SpecCaption: _format_caption applied to templates put together from parts
\* ------------------------------------------------------------------------

\* How many parts a template is put together from, at most
MaxParts == 3

TemplateParts ==
    {<<"{">>, <<"}">>, <<"a">>, <<" ">>, <<"0">>,
     <<"t", "i", "t", "l", "e">>, <<"r", "a", "t", "i", "n", "g">>}

Templates ==
    {Concat(ps) : ps \in UNION {[1..n -> TemplateParts] : n \in 0..MaxParts}}

\* records as the clients build them, with the values written as texts
CaptionRecords ==
    {[title |-> "Heat", year |-> "1995", rating |-> "7.9", poster_url |-> PyNone],
     [title |-> "Lost", rating |-> "8", plot |-> "An island."],
     [title |-> "Heat", rating |-> "N/A"]}

\* _format_caption(template, data) is called
FormatCaption(template, data) ==
    /\ applied = NoApply
    /\ applied' = [fn |-> "_format_caption", template |-> template,
                   data |-> data, result |-> _format_caption(template, data)]
    /\ UNCHANGED restVars

NextCaption ==
    \E template \in Templates, data \in CaptionRecords : FormatCaption(template, data)

SpecCaption == InitPure /\ [][NextCaption]_vars

\* C15: _format_caption never raises, and when format refuses the template
\* (a field name that is not a key of the record, or malformed braces) it
\* returns the input template unchanged.
C15_FormatCaptionNeverRaises ==
    applied.fn = "_format_caption" =>
        /\ applied.result.raised = ""
        /\ applied.result.failure # "" => applied.result.text = applied.template

\* a template naming a field the record lacks, and a template with a single
\* brace, came back unchanged
C15_Witness ==
    /\ applied.fn = "_format_caption"
    /\ applied.template \in {<<"{", "a", "}">>, <<"t", "i", "t", "l", "e", "}">>}
    /\ applied.result.failure \in {"KeyError", "ValueError"}
    /\ applied.result.text = applied.template

\* the template holds a {name} token: a '{', one or more characters other
\* than '}', and a '}'
HasToken(t) ==
    \E i \in 1..Len(t), j \in 1..Len(t) :
        /\ j > i + 1
        /\ t[i] = "{"
        /\ t[j] = "}"
        /\ \A k \in (i + 1)..(j - 1) : t[k] # "}"

Braces == {"{", "}"}

\* C16 as stated: for a template with no {name} token, doubled and single
\* braces included, _format_caption returns exactly the template.
C16_NoTokenUnchanged ==
    (applied.fn = "_format_caption" /\ ~HasToken(applied.template)) =>
        applied.result.text = applied.template

\* every maximal run of one brace character has an even length
EvenBraceRuns(t) ==
    \A i \in 1..Len(t) :
        (t[i] \in Braces /\ (i = 1 \/ t[i - 1] # t[i])) =>
            (RunEnd(t, i, {t[i]}) - i) % 2 = 0

\* the template with every run of a brace character cut to half its length
RECURSIVE HalveRuns(_)
HalveRuns(t) ==
    IF t = <<>> THEN <<>>
    ELSE IF Head(t) \in Braces
         THEN LET n == RunEnd(t, 1, {Head(t)}) - 1
              IN [k \in 1..(n \div 2) |-> Head(t)]
                    \o HalveRuns(SubSeq(t, n + 1, Len(t)))
    ELSE <<Head(t)>> \o HalveRuns(Tail(t))

\* C16: for a template with no {name} token, _format_caption returns the
\* template unchanged when it holds no brace or some run of a brace has an
\* odd length, and else the template with each doubled brace written once.
C16_NoTokenUnescaped ==
    (applied.fn = "_format_caption" /\ ~HasToken(applied.template)) =>
        applied.result.text
            = IF EvenBraceRuns(applied.template)
              THEN HalveRuns(applied.template) ELSE applied.template

\* a template with doubled braces and no token came back with single braces
C16_Witness ==
    /\ applied.fn = "_format_caption"
    /\ applied.template = <<"{", "{", "a">>
    /\ ~HasToken(applied.template)
    /\ applied.result.text = <<"{", "a">>


\* ------------------------------------------------------------------------
\* The template validator (utils/helpers.py, validate_template)
\* ------------------------------------------------------------------------

\* line 223: len(template) > 1000
MAX_TEMPLATE_LENGTH == 1000

\* lines 229-233
valid_variables ==
    {"title", "original_title", "year", "language", "genres", "genre",
     "rating", "plot", "runtime", "director", "cast", "season", "episode",
     "seasons", "episodes", "imdb_id", "tmdb_id", "type"}

\* the first position from i on that holds c, 0 if none
IndexFrom(t, i, c) ==
    IF \E k \in i..Len(t) : t[k] = c
    THEN CHOOSE k \in i..Len(t) : t[k] = c /\ \A m \in i..(k - 1) : t[m] # c
    ELSE 0

\* re.findall(r'\{([^}]+)\}', template) from position i on: the group of
\* every non-overlapping match, left to right.  A match starts at a '{' that
\* is followed by a character other than '}' and, later, by a '}'.
RECURSIVE FindAllFrom(_, _)
FindAllFrom(t, i) ==
    LET open == IndexFrom(t, i, "{")
        close == IndexFrom(t, open + 1, "}")
    IN IF open = 0 THEN <<>>
       ELSE IF open < Len(t) /\ t[open + 1] # "}" /\ close # 0
       THEN <<Flat(SubSeq(t, open + 1, close - 1))>> \o FindAllFrom(t, close + 1)
       ELSE FindAllFrom(t, open + 1)

NotValidVariable(var) == var \notin valid_variables

\* validate_template without the check of lines 223-224
validate_template_anyLength(template) ==
    IF template = <<>>
    THEN [valid |-> FALSE, message |-> "Template cannot be empty"]
    ELSE IF SelectSeq(FindAllFrom(template, 1), NotValidVariable) # <<>>
    THEN [valid |-> FALSE, message |-> "Invalid variables"]
    ELSE [valid |-> TRUE, message |-> "Valid template"]

\* validate_template(template): (valid, message)
validate_template(template) ==
    IF template = <<>>
    THEN [valid |-> FALSE, message |-> "Template cannot be empty"]
    ELSE IF Len(template) > MAX_TEMPLATE_LENGTH
    THEN [valid |-> FALSE, message |-> "Template is too long"]
    ELSE IF SelectSeq(FindAllFrom(template, 1), NotValidVariable) # <<>>
    THEN [valid |-> FALSE, message |-> "Invalid variables"]
    ELSE [valid |-> TRUE, message |-> "Valid template"]

\* ------------------------------------------------------------------------
\* SpecValidate: validate_template applied to short and to long templates
\* ------------------------------------------------------------------------

\* a template of n characters that starts with the characters of start
Padded(start, n) == [k \in 1..n |-> IF k <= Len(start) THEN start[k] ELSE "a"]

LongTemplates ==
    {Padded(start, n) :
        start \in {<<>>, <<"{", "t", "i", "t", "l", "e", "}">>, <<"{", "b", "}">>},
        n \in (MAX_TEMPLATE_LENGTH - 1)..(MAX_TEMPLATE_LENGTH + 1)}

\* validate_template(template) is called
Validate(template) ==
    /\ applied = NoApply
    /\ applied' = [fn |-> "validate_template", template |-> template,
                   result |-> validate_template(template)]
    /\ UNCHANGED restVars

NextValidate == \E template \in Templates \cup LongTemplates : Validate(template)

SpecValidate == InitPure /\ [][NextValidate]_vars

\* the last '}' before position j, 0 if none
PrevClose(t, j) ==
    IF \E k \in 1..(j - 1) : t[k] = "}"
    THEN CHOOSE k \in 1..(j - 1) :
            t[k] = "}" /\ \A m \in (k + 1)..(j - 1) : t[m] # "}"
    ELSE 0

\* the first '{' between the '}' before position j and j, 0 if none
FirstOpen(t, j) ==
    IF \E k \in (PrevClose(t, j) + 1)..(j - 1) : t[k] = "{"
    THEN CHOOSE k \in (PrevClose(t, j) + 1)..(j - 1) :
            t[k] = "{" /\ \A m \in (PrevClose(t, j) + 1)..(k - 1) : t[m] # "{"
    ELSE 0

\* the names of the {name} tokens of t: for each '}', the text between the
\* first '{' that follows the '}' before it (or the start) and that '}', if
\* there is such a '{' and the text is not empty
TokenNames(t) ==
    {Flat(SubSeq(t, FirstOpen(t, j) + 1, j - 1)) :
        j \in {j \in 1..Len(t) :
                 t[j] = "}" /\ FirstOpen(t, j) # 0 /\ FirstOpen(t, j) < j - 1}}

\* C17: validate_template reports valid if and only if the template is
\* non-empty, has at most 1000 characters, and every {name} token in it is
\* one of the 18 whitelisted variable names.
C17_ValidIffWellFormed ==
    applied.fn = "validate_template" =>
        /\ Cardinality(valid_variables) = 18
        /\ applied.result.valid
             <=> /\ applied.template # <<>>
                 /\ Len(applied.template) <= 1000
                 /\ TokenNames(applied.template) \subseteq valid_variables

\* a template of 1001 characters with a whitelisted token was refused
C17_Witness ==
    /\ applied.fn = "validate_template"
    /\ Len(applied.template) = 1001
    /\ TokenNames(applied.template) = {"title"}
    /\ ~applied.result.valid


\* ------------------------------------------------------------------------
\* The template commands (handlers/admin.py) on the configs collection
\* ------------------------------------------------------------------------

\* ' '.join(context.args), the words being texts
RECURSIVE JoinWords(_)
JoinWords(args) ==
    IF args = <<>> THEN <<>>
    ELSE IF Len(args) = 1 THEN args[1]
    ELSE args[1] \o <<" ">> \o JoinWords(Tail(args))

\* text.replace('\\n', '\n'): a backslash followed by n becomes a newline
RECURSIVE ReplaceEscapedNewlines(_)
ReplaceEscapedNewlines(s) ==
    IF s = <<>> THEN <<>>
    ELSE IF Len(s) >= 2 /\ s[1] = "\\" /\ s[2] = "n"
         THEN <<"\n">> \o ReplaceEscapedNewlines(SubSeq(s, 3, Len(s)))
    ELSE <<Head(s)>> \o ReplaceEscapedNewlines(Tail(s))

\* update_user_config(user_id, updates): update_one with $set and upsert
update_user_config(coll, user_id, updates) ==
    LET found == {c \in coll : c.user_id = user_id}
        old == IF found = {} THEN [user_id |-> user_id] ELSE CHOOSE c \in found : TRUE
    IN IF ~dbUp THEN [raised |-> "ConnectionFailure", coll |-> coll]
       ELSE [raised |-> "", coll |-> (coll \ found) \cup {updates @@ old}]

\* Lines 10-52 and 98-139: the command stores the joined arguments under the
\* field and confirms; without arguments it replies with the usage; an
\* exception of the store is replied as an error
SetTemplate(command, field, user_id, args) ==
    LET template == ReplaceEscapedNewlines(JoinWords(args))
        r == update_user_config(configs, user_id, field :> template)
    IN /\ nreq' = nreq + 1
       /\ applied' = [fn |-> command, user_id |-> user_id, args |-> args]
       /\ IF args = <<>>
          THEN /\ sent' = <<Msg("usage")>>
               /\ UNCHANGED configs
          ELSE /\ configs' = r.coll
               /\ sent' = <<Msg(IF r.raised # "" THEN "error" ELSE "updated")>>
       /\ UNCHANGED <<storeVars, movie_cache, directVars, pc, intent, movie_data,
                      source, calls, request, sideVars>>

\* How many template commands one behaviour handles
MaxCommands == 2

\* /setcaption
set_caption(user_id, args) ==
    /\ nreq < MaxCommands
    /\ SetTemplate("set_caption", "caption_template", user_id, args)

\* /setlandcaption
set_landscape_caption(user_id, args) ==
    /\ nreq < MaxCommands
    /\ SetTemplate("set_landscape_caption", "landscape_caption", user_id, args)

\* ------------------------------------------------------------------------
\* SpecAdmin: the template commands, sent by two users
\* ------------------------------------------------------------------------

CommandArgs ==
    {<<>>,
     <<<<"a", "\\", "n", "b">>>>,
     <<<<"{", "t", "i", "t", "l", "e", "}">>>>,
     <<<<"{", "b", "}">>, <<"a">>>>}

NextAdmin ==
    \/ \E user_id \in Users, args \in CommandArgs : set_caption(user_id, args)
    \/ \E user_id \in Users, args \in CommandArgs :
          set_landscape_caption(user_id, args)
    \/ DbOutage
    \/ DbRecover

SpecAdmin == InitPure /\ [][NextAdmin]_vars

\* the templates a configuration holds
StoredTemplates(c) ==
    {c[f] : f \in DOMAIN c \cap {"caption_template", "landscape_caption"}}

\* C18 as stated: set_caption and set_landscape_caption write a template
\* only after validate_template accepted it, so every stored
\* caption_template and landscape_caption is one the validator accepts.
C18_StoredTemplatesValid ==
    \A c \in configs : \A t \in StoredTemplates(c) : validate_template(t).valid


\* ------------------------------------------------------------------------
\* The landscape compositor (services/poster_generator.py,
\* _generate_landscape_poster): the size of the image it draws on
\* ------------------------------------------------------------------------

\* Lines 233-252: the crop box and the size after it.  target_ratio is 16/9;
\* int(w / target_ratio) is the floor of 9w/16 and int(h * target_ratio)
\* that of 16h/9; current_ratio < target_ratio compares w/h with 16/9.
LandscapeCrop(poster_width, poster_height) ==
    IF poster_height > poster_width
    THEN IF 9 * poster_width < 16 * poster_height
         THEN LET new_height == (9 * poster_width) \div 16
                  top == (poster_height - new_height) \div 2
              IN [left |-> 0, top |-> top,
                  width |-> poster_width, height |-> new_height]
         ELSE LET new_width == (16 * poster_height) \div 9
                  left == (poster_width - new_width) \div 2
              IN [left |-> left, top |-> 0,
                  width |-> new_width, height |-> poster_height]
    ELSE [left |-> 0, top |-> 0, width |-> poster_width, height |-> poster_height]

\* ------------------------------------------------------------------------
\* SpecCompositor: the landscape compositor given artwork of every small
\* size and of some common sizes
\* ------------------------------------------------------------------------

\* The longest side of the small artwork sizes tried
MaxSide == 12

ArtworkSizes ==
    ((1..MaxSide) \X (1..MaxSide))
        \cup {<<1000, 1500>>, <<1000, 1000>>, <<2000, 1000>>, <<1920, 1080>>}

\* _generate_landscape_poster is given an image of this size
Compose(size) ==
    /\ applied = NoApply
    /\ applied' = [fn |-> "_generate_landscape_poster", size |-> size,
                   out |-> LandscapeCrop(size[1], size[2])]
    /\ UNCHANGED restVars

NextCompositor == \E size \in ArtworkSizes : Compose(size)

SpecCompositor == InitPure /\ [][NextCompositor]_vars

\* width:height is 16:9 within the rounding of one of the two to an integer
Is16To9(width, height) ==
    \/ height = (9 * width) \div 16
    \/ width = (16 * height) \div 9

\* C19 as stated: in landscape mode the output is 16:9 within integer
\* rounding for every artwork size (portrait, square, landscape), and it is
\* the input cropped about the centre, never stretched.
C19_LandscapeOutput16To9 ==
    applied.fn = "_generate_landscape_poster" =>
        /\ Is16To9(applied.out.width, applied.out.height)
        /\ applied.out.width <= applied.size[1]
        /\ applied.out.height <= applied.size[2]
        /\ applied.out.left = (applied.size[1] - applied.out.width) \div 2
        /\ applied.out.top = (applied.size[2] - applied.out.height) \div 2


\* ------------------------------------------------------------------------
\* The request handler when the artwork cannot be obtained
\* ------------------------------------------------------------------------

\* the record has no usable artwork URL, or the download did not return 200,
\* or the download raised
ArtworkUnavailable ==
    \/ ~StrTruthy(applied.url)
    \/ applied.reply.error
    \/ applied.reply.status # 200

MessageKinds == {sent[k].kind : k \in 1..Len(sent)}

\* C20: when the artwork cannot be obtained, generate_poster returns absent
\* and the request ends with the details sent as a text message, no photo
\* and no error reply.
C20_NoArtworkTextFallback ==
    (pc = "done" /\ applied.fn = "generate_poster" /\ ArtworkUnavailable) =>
        /\ ~applied.result
        /\ Len(sent) >= 2
        /\ sent[Len(sent) - 1].kind = "poster_failed"
        /\ sent[Len(sent)].kind = "details"
        /\ "photo" \notin MessageKinds
        /\ "error" \notin MessageKinds

\* a record with an artwork URL was found and the download raised
C20_Witness ==
    /\ pc = "done"
    /\ applied.fn = "generate_poster"
    /\ StrTruthy(applied.url)
    /\ applied.reply.error
    /\ sent[Len(sent)].kind = "details"

\* ------------------------------------------------------------------------
\* SpecPoster: generate_poster applied to records with and without artwork
\* ------------------------------------------------------------------------

Absent == "<absent>"

\* a record with the field set, or left as it is when the value is Absent
WithField(rec, name, value) ==
    IF value = Absent THEN rec ELSE rec @@ (name :> value)

PosterValues == {Absent, PyNone, "", "poster.jpg"}
BackdropValues == {Absent, PyNone, "", "backdrop.jpg"}

PosterRecords ==
    {WithField(WithField([title |-> t], "poster_url", p), "backdrop_url", b) :
        t \in {"a", "b"}, p \in PosterValues, b \in BackdropValues}

\* generate_poster(movie_data, caption_template, landscape_mode, ...)
GeneratePoster(data, landscape_mode, rImage) ==
    /\ applied = NoApply
    /\ applied' = [fn |-> "generate_poster",
                   data |-> data,
                   landscape_mode |-> landscape_mode,
                   url |-> PosterUrl(data, landscape_mode),
                   reply |-> rImage,
                   result |-> generate_poster(data, landscape_mode, rImage)]
    /\ UNCHANGED restVars

NextPoster ==
    \E data \in PosterRecords, landscape_mode \in BOOLEAN,
       rImage \in ImageReplies :
        GeneratePoster(data, landscape_mode, rImage)

SpecPoster == InitPure /\ [][NextPoster]_vars

\* the record has a backdrop_url / a poster_url (a value that is there and
\* is neither None nor empty)
HasBackdrop(data) ==
    /\ "backdrop_url" \in DOMAIN data
    /\ data.backdrop_url \notin {PyNone, ""}

HasPoster(data) ==
    /\ "poster_url" \in DOMAIN data
    /\ data.poster_url \notin {PyNone, ""}

\* the image asked of download_image, PyNone when generate_poster returned
\* before the download
Downloaded == IF StrTruthy(applied.url) THEN applied.url ELSE PyNone

\* C21: in landscape mode the backdrop is downloaded when the record has a
\* backdrop_url and the poster otherwise; in portrait mode the poster is
\* always the one downloaded, even when a backdrop_url exists.
C21_ArtworkSelection ==
    applied.fn = "generate_poster" =>
        Downloaded =
            IF applied.landscape_mode /\ HasBackdrop(applied.data)
            THEN applied.data.backdrop_url
            ELSE IF HasPoster(applied.data)
            THEN applied.data.poster_url
            ELSE PyNone

\* portrait mode, a record with both URLs: the poster was downloaded
C21_Witness ==
    /\ applied.fn = "generate_poster"
    /\ ~applied.landscape_mode
    /\ HasBackdrop(applied.data)
    /\ HasPoster(applied.data)
    /\ Downloaded = "poster.jpg"
    /\ applied.result

\* ------------------------------------------------------------------------
\* SpecTitlePage: get_title_details on pages with every combination of
\* present and missing elements
\* ------------------------------------------------------------------------

\* a detail page with every element the parser looks for
PageEverything ==
    [h1 |-> "Lost", tv_marker |-> "TV Series",
     episodes_span |-> "118 episodes"] @@ PageFull

\* the page that has exactly the elements in S (and other markup)
PageWith(S) ==
    [f \in S \cup {"other"} |-> IF f = "other" THEN "" ELSE PageEverything[f]]

TitlePages == {PageWith(S) : S \in SUBSET DOMAIN PageEverything}

\* get_title_details(imdb_id) with an empty cache and the page fetched
GetTitleDetails(imdb_id, page) ==
    LET r == get_title_details(movie_cache, imdb_id, Http(200, page))
    IN /\ applied = NoApply
       /\ applied' = [fn |-> "get_title_details", imdb_id |-> imdb_id,
                      page |-> page, kind |-> r.kind, result |-> r.rec]
       /\ UNCHANGED restVars

NextTitlePage == \E page \in TitlePages : GetTitleDetails("tt1", page)

SpecTitlePage == InitPure /\ [][NextTitlePage]_vars

\* the field each page element fills
ElementField ==
    [year |-> "year", rating |-> "rating", runtime |-> "runtime",
     genres |-> "genres", plot |-> "plot", director_section |-> "director",
     cast_section |-> "cast", languages |-> "language"]

\* C22: get_title_details returns a record whenever the detail page was
\* fetched, for every combination of present and missing page elements, and
\* a missing element sets its own field to "N/A".
C22_DetailsNeverAbsent ==
    applied.fn = "get_title_details" =>
        /\ applied.kind = "record"
        /\ \A e \in DOMAIN ElementField \ DOMAIN applied.page :
              applied.result[ElementField[e]] = "N/A"
        /\ ({"hero_title", "h1"} \cap DOMAIN applied.page = {}) =>
              applied.result.title = "N/A"

\* ------------------------------------------------------------------------
\* Claims about retries and about the sender (checked under Spec)
\* ------------------------------------------------------------------------

\* how many calls of the request went to the operation
TimesCalled(op) == Cardinality({k \in 1..Len(calls) : calls[k].op = op})

\* C23: within one request each of search_movie, search_tv, the enrichment
\* call get_tv_details and search_and_get_details is invoked at most once,
\* whatever each of them returns or raises.
C23_NoRetries ==
    \A op \in {"search_movie", "search_tv", "get_tv_details",
               "search_and_get_details"} : TimesCalled(op) <= 1

\* a request whose three lookups all found nothing or raised
C23_Witness ==
    /\ pc = "done"
    /\ Len(calls) = 3
    /\ calls[1].op = "search_movie" /\ calls[1].kind = "absent"
    /\ calls[2].op = "search_tv" /\ calls[2].kind = "raise"
    /\ calls[3].op = "search_and_get_details" /\ calls[3].kind = "absent"

\* the terminal outcomes of a request: the parse failure reply, the 'not
\* found' reply, the photo, the details as text, the generic error reply
TerminalKinds == {"unparsed", "not_found", "photo", "details", "error"}

Outcomes == {k \in 1..Len(sent) : sent[k].kind \in TerminalKinds}

\* the request being handled comes from the admin user and its text is not
\* empty once stripped
AdminRequest ==
    /\ request.user_id = ADMIN_USER_ID
    /\ Strip(request.text, Spaces) # <<>>

\* C24: a request of the admin user with a non-empty text that has ended
\* has reached exactly one terminal outcome (parse failure reply, 'not
\* found' reply, photo, details as text, or the generic error reply).
C24_ExactlyOneOutcome ==
    (pc = "done" /\ AdminRequest) => Cardinality(Outcomes) = 1

\* a step of the request in flight
HandlerStep ==
    \/ GetUserConfig
    \/ \E rSearch \in SearchReplies, rTv \in TvReplies : TmdbSearchTv(rSearch, rTv)
    \/ \E rTv \in TvReplies, rEpisode \in EpisodeReplies : TmdbEnrich(rTv, rEpisode)
    \/ \E rSearch \in SearchReplies, rMovie \in MovieReplies,
          rCredits \in CreditsReplies : TmdbSearchMovie(rSearch, rMovie, rCredits)
    \/ \E rSearch \in SearchReplies, rTv \in TvReplies :
          TmdbSearchTvSecond(rSearch, rTv)
    \/ \E rSearch \in FindReplies, rPage \in PageReplies : ImdbStage(rSearch, rPage)
    \/ ReplyNotFound
    \/ \E rImage \in ImageReplies, deleted \in BOOLEAN : ReplyFound(rImage, deleted)

\* the request handler with the step of a request in flight taken
\* eventually: every awaited call returns or raises, and the event loop
\* then resumes the task
SpecLive == Init /\ [][Next]_vars /\ WF_vars(HandlerStep)

\* a request in flight ends
RequestTerminates == (pc \notin {"idle", "done"}) ~> (pc = "done")

\* a request that has ended has at least one terminal outcome, or was
\* refused or had an empty text
AtLeastOneOutcome ==
    (pc = "done" /\ AdminRequest) => Cardinality(Outcomes) >= 1

\* ------------------------------------------------------------------------
\* SpecLookups: the six cached lookups of the two clients, called one after
\* the other with time passing in between
\* ------------------------------------------------------------------------

\* a time at which an entry cached at 0 with the default ttl is still fresh
HALF_TTL == DEFAULT_TTL \div 2

CallSearchTitle(title, year, rSearch) ==
    LET r == search_title(movie_cache, title, year, rSearch)
    IN Called(r, CallRecord("search_title", ImdbSearchKey(title, year), None, None, r,
                            <<"find">>, <<rSearch>>))

CallGetTitleDetails(imdb_id, rPage) ==
    LET r == get_title_details(movie_cache, imdb_id, rPage)
    IN Called(r, CallRecord("get_title_details", ImdbDetailsKey(imdb_id), None, None,
                            r, <<"page">>, <<rPage>>))

\* time passes between two lookups
Wait(t) ==
    /\ t \in {HALF_TTL, DEFAULT_TTL}
    /\ t > now
    /\ ncalls > 0
    /\ now' = t
    /\ UNCHANGED <<dbUp, indexes, movie_cache, lastOp, puts, lastCall, ncalls,
                   handlerVars, applied, sideVars>>

\* the store answers; create_indexes created no index, or all of them
InitLookups ==
    /\ now = 0
    /\ dbUp = TRUE
    /\ indexes \in {create_indexes(1), create_indexes(5)}
    /\ movie_cache = {}
    /\ InitHandler
    /\ lastOp = [op |-> "none"]
    /\ puts = <<>>
    /\ lastCall = NoCall
    /\ ncalls = 0
    /\ applied = NoApply
    /\ InitSide

NextLookups ==
    \/ \E id \in MovieIds, rMovie \in MovieReplies, rCredits \in CreditsReplies :
          CallGetMovieDetails(id, rMovie, rCredits)
    \/ \E id \in TvIds, se \in SeasonEpisodes, rTv \in TvReplies,
          rEpisode \in EpisodeReplies :
          CallGetTvDetails(id, se[1], se[2], rTv, rEpisode)
    \/ \E title \in Titles, year \in Years, rSearch \in SearchReplies,
          rMovie \in MovieReplies, rCredits \in CreditsReplies :
          CallSearchMovie(title, year, rSearch, rMovie, rCredits)
    \/ \E title \in Titles, year \in Years, rSearch \in SearchReplies,
          rTv \in TvReplies :
          CallSearchTv(title, year, rSearch, rTv)
    \/ \E title \in Titles, year \in Years, rSearch \in FindReplies :
          CallSearchTitle(title, year, rSearch)
    \/ \E rPage \in PageReplies : CallGetTitleDetails("tt1", rPage)
    \/ \E t \in TimePoints : Wait(t)

SpecLookups == InitLookups /\ [][NextLookups]_vars

\* ------------------------------------------------------------------------
\* Claims about the cache in both clients (checked under SpecLookups)
\* ------------------------------------------------------------------------

LookupOps ==
    {"search_movie", "search_tv", "get_movie_details", "get_tv_details",
     "search_title", "get_title_details"}

\* the entry of the key is there and less than its ttl old
FreshEntry(coll, key) ==
    /\ find_one(coll, key) # NoDoc
    /\ now - find_one(coll, key).cached_at < find_one(coll, key).ttl

\* the step is a call that repeats the call before it: the same operation
\* with the same arguments
RepeatsLastCall ==
    /\ ncalls' = ncalls + 1
    /\ lastCall.op \in LookupOps
    /\ lastCall'.op = lastCall.op
    /\ lastCall'.key = lastCall.key
    /\ lastCall'.season = lastCall.season
    /\ lastCall'.episode = lastCall.episode

\* C25: after a lookup has returned a result, repeating the same call with
\* the same arguments while the cache entry is fresh returns the same
\* result and issues no network fetch.
C25_FreshRepeatServedFromCache ==
    [][(/\ RepeatsLastCall
        /\ lastCall.kind = "record"
        /\ FreshEntry(movie_cache, lastCall.key))
          => (/\ lastCall'.kind = "record"
              /\ lastCall'.rec = lastCall.rec
              /\ lastCall'.fetches = <<>>)]_vars

\* search_title was repeated half a ttl after it had fetched and found the
\* id, and was served from the cache
C25_Witness ==
    /\ ncalls = 2
    /\ now = HALF_TTL
    /\ lastCall.op = "search_title"
    /\ lastCall.kind = "record"
    /\ lastCall.fetches = <<>>
    /\ find_one(movie_cache, lastCall.key).cached_at = 0

\* ------------------------------------------------------------------------
\* SpecTemplate: the templates validate_template accepts, formatted against
\* the records the clients build
\* ------------------------------------------------------------------------

\* settings.DEFAULT_CAPTION and DEFAULT_LANDSCAPE_CAPTION, character by
\* character (an emoji is written as one "#")
DEFAULT_CAPTION ==
    <<"#", " ", "*", "*", "{", "t", "i", "t", "l", "e", "}", "*", "*", " ",
      "(", "{", "y", "e", "a", "r", "}", ")", "\n", "#", " ", "*", "*",
      "L", "a", "n", "g", "u", "a", "g", "e", ":", "*", "*", " ", "{", "l",
      "a", "n", "g", "u", "a", "g", "e", "}", "\n", "#", " ", "*", "*",
      "R", "a", "t", "i", "n", "g", ":", "*", "*", " ", "{", "r", "a", "t",
      "i", "n", "g", "}", "/", "1", "0", "\n", "#", " ", "*", "*", "G",
      "e", "n", "r", "e", ":", "*", "*", " ", "{", "g", "e", "n", "r", "e",
      "}", "\n", "#", " ", "*", "*", "D", "i", "r", "e", "c", "t", "o",
      "r", ":", "*", "*", " ", "{", "d", "i", "r", "e", "c", "t", "o", "r",
      "}", "\n", "#", " ", "*", "*", "P", "l", "o", "t", ":", "*", "*",
      " ", "{", "p", "l", "o", "t", "}">>

DEFAULT_LANDSCAPE_CAPTION ==
    <<"#", " ", "{", "t", "i", "t", "l", "e", "}", " ", "|", " ", "{", "y",
      "e", "a", "r", "}", " ", "|", " ", "#", "{", "r", "a", "t", "i", "n",
      "g", "}">>

\* the names validate_template allows, character by character
VariableNames ==
    {<<"t", "i", "t", "l", "e">>,
     <<"o", "r", "i", "g", "i", "n", "a", "l", "_", "t", "i", "t", "l", "e">>,
     <<"y", "e", "a", "r">>,
     <<"l", "a", "n", "g", "u", "a", "g", "e">>,
     <<"g", "e", "n", "r", "e", "s">>,
     <<"g", "e", "n", "r", "e">>,
     <<"r", "a", "t", "i", "n", "g">>,
     <<"p", "l", "o", "t">>,
     <<"r", "u", "n", "t", "i", "m", "e">>,
     <<"d", "i", "r", "e", "c", "t", "o", "r">>,
     <<"c", "a", "s", "t">>,
     <<"s", "e", "a", "s", "o", "n">>,
     <<"e", "p", "i", "s", "o", "d", "e">>,
     <<"s", "e", "a", "s", "o", "n", "s">>,
     <<"e", "p", "i", "s", "o", "d", "e", "s">>,
     <<"i", "m", "d", "b", "_", "i", "d">>,
     <<"t", "m", "d", "b", "_", "i", "d">>,
     <<"t", "y", "p", "e">>}

\* the default templates, and one template per allowed name
AcceptedTemplates ==
    {DEFAULT_CAPTION, DEFAULT_LANDSCAPE_CAPTION}
        \cup {<<"{">> \o name \o <<"}">> : name \in VariableNames}

\* str(value) of line 77 for the numbers a record carries
StrValues(rec) ==
    [k \in DOMAIN rec |->
        IF k \in {"tmdb_id", "season", "episode"} THEN IntStr(rec[k]) ELSE rec[k]]

\* records as get_movie_details, get_tv_details and get_title_details build
\* them from the replies of the sources
ClientRecords ==
    {FormatMovie(MovieFull, 1, CreditsFull),
     FormatMovie(MovieBare, 1, NoDoc),
     FormatTv(TvFull, 1),
     FormatTv(TvBare, 1),
     WithEpisode(FormatTv(TvFull, 1), 1, 2, EpisodeFull),
     ParseTitlePage(PageFull, "tt1"),
     ParseTitlePage(PageBare, "tt1")}

\* _format_caption(template, movie_data) for a record of a client
FormatClientRecord(template, rec) ==
    /\ applied = NoApply
    /\ applied' = [fn |-> "_format_caption", template |-> template,
                   data |-> rec,
                   accepted |-> validate_template(template).valid,
                   result |-> _format_caption(template, StrValues(rec))]
    /\ UNCHANGED restVars

NextTemplate ==
    \E template \in AcceptedTemplates, rec \in ClientRecords :
        FormatClientRecord(template, rec)

SpecTemplate == InitPure /\ [][NextTemplate]_vars

\* C26: every template validate_template accepts, the two defaults
\* included, is fully substituted by _format_caption against every record
\* the clients can return: format does not fail and the caption is not the
\* raw template.
C26_AcceptedTemplateSubstituted ==
    (applied.fn = "_format_caption" /\ applied.accepted) =>
        /\ applied.result.failure = ""
        /\ applied.result.text # applied.template

\* the default portrait template comes back as it is for every record, and
\* the default landscape template is substituted for every record
DefaultCaptionOutcomes ==
    /\ (applied.fn = "_format_caption" /\ applied.template = DEFAULT_CAPTION) =>
          (applied.result.failure = "KeyError"
              /\ applied.result.text = DEFAULT_CAPTION)
    /\ (applied.fn = "_format_caption"
            /\ applied.template = DEFAULT_LANDSCAPE_CAPTION) =>
          applied.result.failure = ""

\* ------------------------------------------------------------------------
\* SpecConfig: get_user_config called by tasks that run concurrently (each
\* await is a point where the event loop may switch to another task)
\* ------------------------------------------------------------------------

\* How many get_user_config calls run at once
MaxTasks == 2

TaskIds == 1..MaxTasks

NotStarted == [pc |-> "idle", user_id |-> None, config |-> NoDoc]

\* the store answers, create_indexes stopped anywhere, no configuration
\* exists, no call has started
InitConfig ==
    /\ InitStore
    /\ InitHandler
    /\ lastOp = [op |-> "none"]
    /\ puts = <<>>
    /\ lastCall = NoCall
    /\ ncalls = 0
    /\ applied = NoApply
    /\ call_times = <<>>
    /\ invoked = <<>>
    /\ tasks = [t \in TaskIds |-> NotStarted]

taskFrame ==
    <<storeVars, movie_cache, directVars, pc, intent, movie_data, source, calls,
      sent, nreq, request, applied, call_times, invoked>>

\* get_user_config(user_id) is called: find_one is issued (line 70)
StartConfig(t, user_id) ==
    /\ tasks[t].pc = "idle"
    /\ tasks' = [tasks EXCEPT ![t] = [pc |-> "find", user_id |-> user_id,
                                      config |-> NoDoc]]
    /\ UNCHANGED <<configs, taskFrame>>

\* Lines 70-71 and 81: find_one answers; the document found is returned
FindConfig(t) ==
    LET found == {c \in configs : c.user_id = tasks[t].user_id}
    IN /\ tasks[t].pc = "find"
       /\ tasks' = [tasks EXCEPT ![t] =
                      IF found # {}
                      THEN [@ EXCEPT !.pc = "returned",
                                     !.config = CHOOSE c \in found : TRUE]
                      ELSE [@ EXCEPT !.pc = "insert"]]
       /\ UNCHANGED <<configs, taskFrame>>

\* Lines 73-81: the default configuration is inserted and returned;
\* insert_one gives the document its own _id, and raises DuplicateKeyError
\* when the unique index on user_id exists and the user has a document
InsertConfig(t) ==
    LET config == [user_id |-> tasks[t].user_id,
                   caption_template |-> "DEFAULT_CAPTION",
                   landscape_mode |-> FALSE,
                   landscape_caption |-> "DEFAULT_LANDSCAPE_CAPTION",
                   created_at |-> now,
                   _id |-> t]
        duplicate == /\ "configs.user_id" \in indexes
                     /\ \E c \in configs : c.user_id = tasks[t].user_id
    IN /\ tasks[t].pc = "insert"
       /\ IF duplicate
          THEN /\ tasks' = [tasks EXCEPT ![t].pc = "raised"]
               /\ UNCHANGED configs
          ELSE /\ tasks' = [tasks EXCEPT ![t].pc = "returned",
                                         ![t].config = config]
               /\ configs' = configs \cup {config}
       /\ UNCHANGED taskFrame

NextConfig ==
    \/ \E t \in TaskIds, user_id \in Users : StartConfig(t, user_id)
    \/ \E t \in TaskIds : FindConfig(t)
    \/ \E t \in TaskIds : InsertConfig(t)

SpecConfig == InitConfig /\ [][NextConfig]_vars

RecordsOf(user_id) == {c \in configs : c.user_id = user_id}

\* C27: under concurrent calls for a user without a configuration, no
\* get_user_config call fails, a call that returned returned a
\* configuration of its user, and once every call of the user has ended
\* exactly one record exists for that user.
C27_ConcurrentFirstConfig ==
    /\ \A t \in TaskIds : tasks[t].pc # "raised"
    /\ \A t \in TaskIds :
          tasks[t].pc = "returned" => tasks[t].config \in RecordsOf(tasks[t].user_id)
    /\ \A user_id \in Users :
          (/\ \E t \in TaskIds : tasks[t].user_id = user_id
           /\ \A t \in TaskIds :
                 tasks[t].user_id = user_id => tasks[t].pc = "returned")
             => Cardinality(RecordsOf(user_id)) = 1

\* the step is a call of one of the six lookups
LookupStep == ncalls' = ncalls + 1 /\ lastCall'.op \in LookupOps

\* C28 as stated: when a lookup returned absent, no cache entry exists for
\* its key afterwards.
C28_AbsentLeavesNoEntry ==
    (lastCall.op \in LookupOps /\ lastCall.kind = "absent") =>
        find_one(movie_cache, lastCall.key) = NoDoc

\* C28: a lookup that ends absent leaves the cache exactly as it was, and
\* no fresh entry exists for its key afterwards (an entry that was already
\* stale stays), so that the next identical call queries the remote source
\* again.
C28_AbsentWritesNothing ==
    [][/\ (LookupStep /\ lastCall'.kind = "absent") =>
             /\ movie_cache' = movie_cache
             /\ ~FreshEntry(movie_cache', lastCall'.key)
       /\ (RepeatsLastCall /\ lastCall.kind = "absent") =>
             lastCall'.fetches # <<>>]_vars

\* search_movie found a record at 0; called again when the entry had gone
\* stale it fetched, found nothing, and left the stale entry where it was
C28_Witness ==
    /\ ncalls = 2
    /\ now = DEFAULT_TTL
    /\ lastCall.op = "search_movie"
    /\ lastCall.kind = "absent"
    /\ lastCall.fetches # <<>>
    /\ find_one(movie_cache, lastCall.key) # NoDoc
    /\ find_one(movie_cache, lastCall.key).cached_at = 0

\* ------------------------------------------------------------------------
\* SpecRateLimit: a handler wrapped with rate_limit (utils/decorators.py)
\* ------------------------------------------------------------------------

\* The calls_per_minute the decorator is given, and how many calls of the
\* wrapped handler one behaviour tries
calls_per_minute == 2
MaxAttempts == 4

\* the length of the window, in seconds (lines 67-70)
WINDOW == 60

\* the times the clock is read at: around one window and around two
RateTimes == {0, 1, WINDOW - 1, WINDOW, WINDOW + 1, 2 * WINDOW}

\* call_times[user_id] of the defaultdict: the empty list for a new user
TimesOf(times, user_id) ==
    IF user_id \in DOMAIN times THEN times[user_id] ELSE <<>>

\* lines 67-70: the recorded times less than 60 seconds old
Recent(list, current_time) ==
    SelectSeq(list, LAMBDA t : current_time - t < WINDOW)

\* the list with every call recorded, the rejected ones as well
Recorded_always(kept, current_time) == Append(kept, current_time)

\* lines 72-82: a call is rejected when the list is full, and recorded
\* when it is admitted
Recorded(kept, current_time) ==
    IF Len(kept) >= calls_per_minute THEN kept ELSE Append(kept, current_time)

\* the decorated handler is called by user_id: the wrapped handler is
\* invoked unless the user's list is full
RateLimitedCall(user_id) ==
    LET kept == Recent(TimesOf(call_times, user_id), now)
        admit == Len(kept) < calls_per_minute
    IN /\ nreq < MaxAttempts
       /\ nreq' = nreq + 1
       /\ call_times' = (user_id :> Recorded(kept, now)) @@ call_times
       /\ invoked' = IF admit
                     THEN Append(invoked, [user_id |-> user_id, time |-> now])
                     ELSE invoked
       /\ sent' = IF admit THEN <<>> ELSE <<Msg("rate_limited")>>
       /\ applied' = [fn |-> "rate_limit", user_id |-> user_id, time |-> now,
                      admitted |-> admit]
       /\ UNCHANGED <<storeVars, movie_cache, configs, directVars, pc, intent,
                      movie_data, source, calls, request, tasks>>

\* the clock moves on
Advance(t) ==
    /\ t > now
    /\ now' = t
    /\ UNCHANGED <<dbUp, indexes, movie_cache, handlerVars, directVars, applied,
                   sideVars>>

NextRateLimit ==
    \/ \E user_id \in Users : RateLimitedCall(user_id)
    \/ \E t \in RateTimes : Advance(t)

SpecRateLimit == InitPure /\ [][NextRateLimit]_vars

\* the invocations of the user that are less than 60 seconds before t, t
\* included
InvokedWithin(user_id, t) ==
    {k \in 1..Len(invoked) :
        /\ invoked[k].user_id = user_id
        /\ invoked[k].time <= t
        /\ t - invoked[k].time < WINDOW}

\* every 60-second window ending at an invocation holds at most
\* calls_per_minute invocations of the user
WindowBound ==
    \A k \in 1..Len(invoked) :
        Cardinality(InvokedWithin(invoked[k].user_id, invoked[k].time))
            <= calls_per_minute

\* every recorded time is the time of an invocation of that user
OnlyInvocationsRecorded ==
    \A user_id \in DOMAIN call_times :
        \A i \in 1..Len(call_times[user_id]) :
            \E k \in 1..Len(invoked) :
                /\ invoked[k].user_id = user_id
                /\ invoked[k].time = call_times[user_id][i]

\* a call is admitted exactly when fewer than calls_per_minute invocations
\* of the same user lie within the last 60 seconds
AdmittedWhenRoom ==
    \A user_id \in Users :
        (nreq' = nreq + 1 /\ applied'.user_id = user_id) =>
            (applied'.admitted
                <=> Cardinality(InvokedWithin(user_id, now)) < calls_per_minute)

\* C29: with rate_limit(N), every 60-second window holds at most N
\* invocations of the wrapped handler per user; a rejected call is not
\* recorded; calls of one user never count against another; and a call is
\* admitted as soon as fewer than N invocations of the user lie within the
\* last 60 seconds.
C29_RateLimit ==
    /\ [](WindowBound /\ OnlyInvocationsRecorded)
    /\ [][AdmittedWhenRoom]_vars

\* the admin filled the window at 0, was rejected once before the window
\* was over, and was admitted again at 60
C29_Witness ==
    /\ now = WINDOW
    /\ nreq = 4
    /\ Len(invoked) = 3
    /\ invoked[1] = [user_id |-> ADMIN_USER_ID, time |-> 0]
    /\ invoked[2] = [user_id |-> ADMIN_USER_ID, time |-> 0]
    /\ invoked[3] = [user_id |-> ADMIN_USER_ID, time |-> WINDOW]
    /\ applied.fn = "rate_limit" /\ applied.admitted

\* the request being handled was sent by someone else than the admin
ForeignRequest == request # NoRequest /\ request.user_id # ADMIN_USER_ID

\* what the request of another sender leaves behind: the restriction
\* message and nothing else
OnlyRestricted ==
    ForeignRequest =>
        /\ pc = "done"
        /\ sent = <<Msg("restricted")>>
        /\ calls = <<>>
        /\ movie_data = NoDoc
        /\ applied = NoApply

\* the step that takes the request of another sender parses nothing, reads
\* and creates no configuration, leaves the cache alone and invokes no
\* wrapped handler
ForeignStep ==
    (nreq' = nreq + 1 /\ request'.user_id # ADMIN_USER_ID) =>
        UNCHANGED <<intent, configs, movie_cache, invoked>>

\* once the request of another sender was taken, nothing changes but the
\* clock and the store until the next request arrives
ForeignIdle ==
    (ForeignRequest /\ nreq' = nreq) =>
        UNCHANGED <<handlerVars, movie_cache, invoked, applied>>

\* C30: for a request whose sender is not the admin, handle_movie_request
\* (and a handler wrapped with admin_only) replies with the restriction
\* message and does nothing else: no parsing, no configuration read or
\* created, no client call, no cache access, no poster.
C30_ForeignSenderOnlyRestricted ==
    /\ []OnlyRestricted
    /\ [][ForeignStep /\ ForeignIdle]_vars

\* a text that parses, sent by another user, got the restriction message
C30_Witness ==
    /\ request = [user_id |-> ADMIN_USER_ID + 1, text |-> <<"a">>]
    /\ sent = <<Msg("restricted")>>
    /\ pc = "done"

=============================================================================
